---- MODULE Spec2Model ----
(***************************************************************************)
(* A model of the analysis and data-cleaning pipeline of the uCritAir log  *)
(* analyzer: AQI sub-index computation, validity masking, gap detection,   *)
(* the CSV importer and the session that owns the datasets, and the CO2    *)
(* decay fit and event detection.                                          *)
(*                                                                         *)
(* Numbers.  The program computes in floating point; the model computes    *)
(* exactly.  A cell of a table or series is a record [nan, v]: nan = TRUE  *)
(* is a missing value (NaN / pd.NA), otherwise v is an integer on the      *)
(* grid of the component.  Quotients are kept as fractions [nan, n, d].    *)
(***************************************************************************)
EXTENDS Integers, Sequences, FiniteSets, TLC

VARIABLES
    aqi_pc,        \* AQI component: "input" before compute_aqi, "done" after
    aqi_pack,      \* the StandardPack handed to compute_aqi
    aqi_pm25,      \* the pm25 series argument, or NoSeries
    aqi_pm10,      \* the pm10 series argument or NoSeries
    aqi_df,        \* the DataFrame compute_aqi returned
    mask_pc,       \* mask engine: "input", "once", "twice" (calls made so far)
    mask_input,    \* the table as it was before the first call
    mask_raw,      \* the table object handed to apply_validity_masks
    mask_cfg,      \* the ProcessingConfig handed to apply_validity_masks
    mask_first,    \* the MaskResult of the first call
    mask_second,   \* the MaskResult of the second call
    gap_pc,        \* gap detector: "input" before detect_gaps, "done" after
    gap_times,     \* the timestamp series handed to detect_gaps
    gap_factor,    \* the factor handed to detect_gaps, a fraction
    gap_result,    \* the list of (start, end) pairs detect_gaps returned
    imp_pc,        \* importer: "input" before load_csv, "done" after
    imp_file,      \* the CSV file handed to load_csv
    imp_config,    \* the ProcessingConfig handed to load_csv
    imp_result,    \* what load_csv did: an exception or a Dataset
    sess_datasets, \* session: AppState.datasets
    sess_current,  \* session: the current row of dataset_list, 0 for none
    sess_config,   \* session: AppState.processing_config
    sess_error,    \* session: the text of the last "Import Error" box, "" for none
    fit_pc,        \* decay fit: "input" before fit_co2_decay, "done" after
    fit_times,     \* the times handed to fit_co2_decay, in minutes
    fit_co2,       \* the CO2 series handed to fit_co2_decay
    fit_baseline,  \* the baseline handed to fit_co2_decay
    fit_method,    \* the method handed to fit_co2_decay
    fit_result,    \* the DecayFitResult it returned
    det_pc,        \* event detection: "input" before the call, "done" after
    det_times,     \* the times handed to detect_co2_decay_events
    det_co2,       \* the CO2 series handed to it
    det_arg,       \* its other arguments: baseline, thresholds, method
    det_events,    \* the list of DecayEvents it returned
    ach_pc,        \* ACH summary: "input" before summarize_ach, "done" after
    ach_events,    \* the events handed to summarize_ach
    ach_min_r2,    \* the min_r2 handed to it, in hundredths
    ach_stats,     \* the dict it returned
    exp_pc,        \* exposure: "input" before exposure_stats, "done" after
    exp_times,     \* the DatetimeIndex of the series, in seconds
    exp_values,    \* the values of the series
    exp_threshold, \* the threshold handed to exposure_stats
    exp_stats,     \* the dict it returned
    ema_pc,        \* "input", "done" or "idle"
    ema_times,     \* the index of the series, in seconds
    ema_values,    \* the values of the series, fractions or FNaN
    ema_tau,       \* the time constant
    ema_nan_mode,  \* "skip", "reset" or "hold"
    ema_out,       \* the series ema_time_aware returned
    flat_pc,       \* "input", "done" or "idle"
    flat_df,       \* the table indexed by timestamp
    flat_cfg,      \* the FlatlineConfig
    flat_flags,    \* the dict flag_flatlines returned
    sum_pc,        \* aqi_summary: "idle", "input" or "done"
    sum_times,     \* the index of the AQI series, seconds
    sum_values,    \* the values of the AQI series
    sum_categories,\* the category bands
    sum_result     \* the dict aqi_summary returned

aqi_vars == <<aqi_pc, aqi_pack, aqi_pm25, aqi_pm10, aqi_df>>

mask_vars == <<mask_pc, mask_input, mask_raw, mask_cfg, mask_first, mask_second>>

gap_vars == <<gap_pc, gap_times, gap_factor, gap_result>>

imp_vars == <<imp_pc, imp_file, imp_config, imp_result>>

sess_vars == <<sess_datasets, sess_current, sess_config, sess_error>>

fit_vars == <<fit_pc, fit_times, fit_co2, fit_baseline, fit_method, fit_result>>

det_vars == <<det_pc, det_times, det_co2, det_arg, det_events>>

ach_vars == <<ach_pc, ach_events, ach_min_r2, ach_stats>>

exp_vars == <<exp_pc, exp_times, exp_values, exp_threshold, exp_stats>>

ema_vars == <<ema_pc, ema_times, ema_values, ema_tau, ema_nan_mode, ema_out>>

flat_vars == <<flat_pc, flat_df, flat_cfg, flat_flags>>

sum_vars == <<sum_pc, sum_times, sum_values, sum_categories, sum_result>>

vars ==
    <<aqi_vars, mask_vars, gap_vars, imp_vars, sess_vars, fit_vars,
      det_vars>>

(***************************************************************************)
(* Cells and fractions                                                     *)
(***************************************************************************)
NaN == [nan |-> TRUE, v |-> 0]

Num(x) == [nan |-> FALSE, v |-> x]

FNaN == [nan |-> TRUE, n |-> 0, d |-> 1]

Frac(a, b) == [nan |-> FALSE, n |-> a, d |-> b]

\* a <= b on fractions with positive denominators; FALSE when either is NaN
FracLe(a, b) == (~a.nan) /\ (~b.nan) /\ a.n * b.d <= b.n * a.d

FracEq(a, b) == (a.nan /\ b.nan) \/ ((~a.nan) /\ (~b.nan) /\ a.n * b.d = b.n * a.d)

\* the largest integer <= n/d, d > 0
FloorDiv(n, d) == n \div d

\* Python's int(x): truncation toward zero
TruncDiv(n, d) == IF n >= 0 THEN n \div d ELSE -((-n) \div d)

\* the sum of f over the positions pos
RECURSIVE SumOver(_, _)
SumOver(f, pos) ==
    IF pos = {} THEN 0
    ELSE LET i == CHOOSE x \in pos : TRUE IN f[i] + SumOver(f, pos \ {i})

\* exact arithmetic on fractions
RECURSIVE GCD(_, _)
GCD(a, b) == IF b = 0 THEN a ELSE GCD(b, a % b)

Abs(x) == IF x < 0 THEN -x ELSE x

\* the fraction n/d in lowest terms with a positive denominator (d # 0)
Ratio(n, d) ==
    LET g == GCD(Abs(n), Abs(d))
        sign == IF d < 0 THEN -1 ELSE 1
    IN  Frac(sign * (n \div g), sign * (d \div g))

\* sums and differences over the least common denominator
FracAdd(a, b) ==
    LET g == GCD(a.d, b.d)
    IN  Ratio(a.n * (b.d \div g) + b.n * (a.d \div g), (a.d \div g) * b.d)

FracSub(a, b) == FracAdd(a, Frac(-b.n, b.d))

FracMul(a, b) == Ratio(a.n * b.n, a.d * b.d)

FracLt(a, b) == a.n * b.d < b.n * a.d

RECURSIVE FracSum(_)
FracSum(fracs) ==
    IF fracs = <<>> THEN Frac(0, 1) ELSE FracAdd(fracs[1], FracSum(Tail(fracs)))

(***************************************************************************)
(* AQI engine (app/analysis/aqi.py)                                        *)
(***************************************************************************)
\* an optional series argument: None, or the cells of the series
NoSeries == [none |-> TRUE, cells |-> <<>>]

Series(cells) == [none |-> FALSE, cells |-> cells]

\* rounding with a half going to the even neighbour
round_half_even(value) ==
    LET below == FloorDiv(value.n, value.d)
        twice_rest == 2 * (value.n - below * value.d)
    IN  IF twice_rest < value.d THEN Frac(below, 1)
        ELSE IF twice_rest > value.d THEN Frac(below + 1, 1)
        ELSE Frac(below + (below % 2), 1)

\* np.floor(value + 0.5)
round_half_up(value) == Frac(FloorDiv(2 * value.n + value.d, 2 * value.d), 1)

apply_rounding(value, mode) ==
    IF mode = "round" THEN round_half_up(value)
    ELSE IF mode = "floor" THEN Frac(TruncDiv(value.n, value.d), 1)
    ELSE IF mode = "truncate" THEN Frac(TruncDiv(value.n, value.d), 1)
    ELSE value

\* sorted(breakpoints, key=lambda row: row[0]): stable, ascending conc_low
RECURSIVE insert_sorted(_, _)
insert_sorted(row, ordered) ==
    IF ordered = <<>> THEN <<row>>
    ELSE IF row.conc_low < Head(ordered).conc_low THEN <<row>> \o ordered
    ELSE <<Head(ordered)>> \o insert_sorted(row, Tail(ordered))

RECURSIVE sorted_breakpoints(_)
sorted_breakpoints(breakpoints) ==
    IF breakpoints = <<>> THEN <<>>
    ELSE insert_sorted(breakpoints[Len(breakpoints)],
                       sorted_breakpoints(SubSeq(breakpoints, 1, Len(breakpoints) - 1)))

\* segment_mask without the upper bound of a closed segment
segment_mask_no_upper(cell, row, is_open_top) ==
    IF cell.nan THEN FALSE ELSE cell.v >= row.conc_low

\* the mask of one segment over one cell
segment_mask(cell, row, is_open_top) ==
    IF cell.nan THEN FALSE
    ELSE IF is_open_top THEN cell.v >= row.conc_low
    ELSE cell.v >= row.conc_low /\ cell.v <= row.conc_high

\* (idx_high - idx_low) / (conc_high - conc_low) * (c - conc_low) + idx_low
segment_value(cell, row) ==
    Frac((row.idx_high - row.idx_low) * (cell.v - row.conc_low)
            + row.idx_low * (row.conc_high - row.conc_low),
         row.conc_high - row.conc_low)

\* The loop of _compute_subindex from segment k on: every segment whose mask
\* holds assigns result.loc[mask], so a later segment overwrites an earlier one.
RECURSIVE subindex_from(_, _, _, _, _, _)
subindex_from(result, series, ordered, rounding_mode, extrapolate_upper, k) ==
    IF k > Len(ordered) THEN result
    ELSE
        LET row == ordered[k]
            open == extrapolate_upper /\ k = Len(ordered)
            next == [i \in 1..Len(series) |->
                        IF segment_mask(series[i], row, open)
                        THEN apply_rounding(segment_value(series[i], row), rounding_mode)
                        ELSE result[i]]
        IN subindex_from(next, series, ordered, rounding_mode, extrapolate_upper, k + 1)

compute_subindex(series, breakpoints, rounding_mode, extrapolate_upper) ==
    subindex_from([i \in 1..Len(series) |-> FNaN], series,
                  sorted_breakpoints(breakpoints), rounding_mode, extrapolate_upper, 1)

\* np.floor(values * scale + 1e-9) / scale on the grid; step is in grid units
truncate_series(series, step) ==
    IF step <= 0 THEN series
    ELSE [i \in 1..Len(series) |->
            IF series[i].nan THEN NaN ELSE Num(FloorDiv(series[i].v, step) * step)]

\* first key of keys present in trunc_map, else 0 (None)
RECURSIVE lookup_truncation(_, _)
lookup_truncation(trunc_map, keys) ==
    IF keys = <<>> THEN 0
    ELSE IF Head(keys) \in DOMAIN trunc_map THEN trunc_map[Head(keys)]
    ELSE lookup_truncation(trunc_map, Tail(keys))

\* dict.get(key) or ... or "round": a missing or empty mode falls through
RECURSIVE rounding_get(_, _, _)
rounding_get(rounding, keys, default) ==
    IF keys = <<>> THEN default
    ELSE IF Head(keys) \in DOMAIN rounding /\ rounding[Head(keys)] # ""
         THEN rounding[Head(keys)]
    ELSE rounding_get(rounding, Tail(keys), default)

FracMax(a, b) ==
    IF a.nan THEN b ELSE IF b.nan THEN a ELSE IF FracLe(a, b) THEN b ELSE a

\* pm25_key = "pm2_5" if "pm2_5" in pack.breakpoints else "pm25"
pm25_key_of(pack) == IF "pm2_5" \in DOMAIN pack.breakpoints THEN "pm2_5" ELSE "pm25"

\* series = _truncate_series(pm, step) if step else pm
lookup_series(cells, pack, keys) ==
    LET step == lookup_truncation(pack.concentration_truncation, keys)
    IN IF step # 0 THEN truncate_series(cells, step) ELSE cells

pm25_lookup(pm25, pack) ==
    lookup_series(pm25.cells, pack, <<pm25_key_of(pack), "pm25", "pm2_5">>)

pm10_lookup(pm10, pack) == lookup_series(pm10.cells, pack, <<"pm10">>)

\* no category: the NaN a row of the object series starts with
NoCategory == ""

\* the loop of classify_aqi from band k on: every band whose inclusive range
\* holds the value assigns out.loc[mask], so a later band overwrites an
\* earlier one
RECURSIVE classify_from(_, _, _, _)
classify_from(out, aqi_series, categories, k) ==
    IF k > Len(categories) THEN out
    ELSE
        LET cat == categories[k]
            next == [i \in 1..Len(aqi_series) |->
                        IF /\ FracLe(Frac(cat.low, 1), aqi_series[i])
                           /\ FracLe(aqi_series[i], Frac(cat.high, 1))
                        THEN cat.name
                        ELSE out[i]]
        IN classify_from(next, aqi_series, categories, k + 1)

classify_aqi(aqi_series, categories) ==
    classify_from([i \in 1..Len(aqi_series) |-> NoCategory], aqi_series, categories, 1)

\* compute_aqi: the columns it returns; the DataFrame is empty (no columns)
\* when neither pollutant is both given and in the pack
compute_aqi(pm25, pm10, pack) ==
    LET pm25_key == pm25_key_of(pack)
        has25 == (~pm25.none) /\ pm25_key \in DOMAIN pack.breakpoints
        has10 == (~pm10.none) /\ "pm10" \in DOMAIN pack.breakpoints
        mode25 == rounding_get(pack.rounding, <<pm25_key, "pm25", "pm2_5">>, "round")
        sub25 == compute_subindex(pm25_lookup(pm25, pack), pack.breakpoints[pm25_key],
                                  mode25, pack.extrapolate_upper)
        mode10 == IF "pm10" \in DOMAIN pack.rounding THEN pack.rounding["pm10"] ELSE "round"
        sub10 == compute_subindex(pm10_lookup(pm10, pack), pack.breakpoints["pm10"],
                                  mode10, pack.extrapolate_upper)
        rows == IF has25 THEN Len(pm25.cells) ELSE IF has10 THEN Len(pm10.cells) ELSE 0
        \* not df.empty
        filled == (has25 \/ has10) /\ rows > 0
        overall == [i \in 1..rows |->
                        FracMax(IF has25 THEN sub25[i] ELSE FNaN,
                                IF has10 THEN sub10[i] ELSE FNaN)]
        classified == filled /\ pack.categories # <<>>
    IN  [columns |-> (IF has25 THEN {"aqi_pm25"} ELSE {})
                     \cup (IF has10 THEN {"aqi_pm10"} ELSE {})
                     \cup (IF filled THEN {"aqi_overall"} ELSE {})
                     \cup (IF classified THEN {"aqi_category"} ELSE {}),
         aqi_pm25 |-> IF has25 THEN sub25 ELSE <<>>,
         aqi_pm10 |-> IF has10 THEN sub10 ELSE <<>>,
         aqi_overall |-> IF filled THEN overall ELSE <<>>,
         aqi_category |-> IF classified THEN classify_aqi(overall, pack.categories) ELSE <<>>]

(***************************************************************************)
(* Validity mask engine (app/data/mask_rules.py, app/core/config.py)       *)
(*                                                                         *)
(* A table (DataFrame) is [timestamp, cols]: the timestamps in seconds and *)
(* a function from the other column names to their cells, one per row.     *)
(***************************************************************************)
DEFAULT_RANGES ==
    [c \in {"co2", "temp_c", "rh", "pressure"} |->
        CASE c = "co2" -> <<350, 20000>>
          [] c = "temp_c" -> <<-40, 85>>
          [] c = "rh" -> <<0, 100>>
          [] c = "pressure" -> <<300, 1100>>]

PM_COLUMNS == {"pm1_0", "pm2_5", "pm4_0", "pm10"}

PN_COLUMNS == {"pn0_5", "pn1_0", "pn2_5", "pn4_0", "pn10_0"}

\* ProcessingConfig() with its defaults
DefaultProcessingConfig ==
    [dedup_keep |-> "first",
     gap_factor |-> [n |-> 2, d |-> 1],
     resample_interval |-> "None",
     use_resampled |-> FALSE,
     voc_nox_zero_mode |-> "mask_inactive",
     flatline_diag_enabled |-> TRUE,
     flatline_automask |-> FALSE,
     plausible_ranges |-> <<>>]

\* {**DEFAULT_RANGES, **config.plausible_ranges}
merged_ranges(config) ==
    [c \in (DOMAIN DEFAULT_RANGES) \cup (DOMAIN config.plausible_ranges) |->
        IF c \in DOMAIN config.plausible_ranges THEN config.plausible_ranges[c]
        ELSE DEFAULT_RANGES[c]]

\* cell_valid with the zero rule of voc/nox applied in every zero mode
cell_valid_zero_any_mode(col, cell, config) ==
    LET ranges == merged_ranges(config)
        not_null == ~cell.nan
    IN  IF col = "flags" THEN not_null
        ELSE IF col \in PM_COLUMNS \/ col \in PN_COLUMNS
             THEN not_null /\ ~(cell.v < 0)
        ELSE IF col = "voc" \/ col = "nox"
             THEN not_null /\ ~(cell.v < 0) /\ ~(cell.v = 0)
        ELSE IF col \in DOMAIN ranges
             THEN not_null /\ ~(cell.v < ranges[col][1]) /\ ~(cell.v > ranges[col][2])
        ELSE IF col = "co2_uncomp"
             THEN not_null /\ ~(cell.v <= 0)
        ELSE not_null

\* the value of `valid` for one cell of column col
cell_valid(col, cell, config) ==
    LET ranges == merged_ranges(config)
        not_null == ~cell.nan
    IN  IF col = "flags" THEN not_null
        ELSE IF col \in PM_COLUMNS \/ col \in PN_COLUMNS
             THEN not_null /\ ~(cell.v < 0)
        ELSE IF col = "voc" \/ col = "nox"
             THEN /\ not_null
                  /\ ~(cell.v < 0)
                  /\ (config.voc_nox_zero_mode = "mask_inactive" => ~(cell.v = 0))
        ELSE IF col \in DOMAIN ranges
             THEN not_null /\ ~(cell.v < ranges[col][1]) /\ ~(cell.v > ranges[col][2])
        ELSE IF col = "co2_uncomp"
             THEN not_null /\ ~(cell.v <= 0)
        ELSE not_null

\* the reasons one cell of column col is counted under (a comparison with a
\* missing value is False, so a missing cell is counted under "null" only)
cell_reasons(col, cell, config) ==
    LET ranges == merged_ranges(config)
        num == ~cell.nan
    IN  (IF cell.nan THEN {"null"} ELSE {})
        \cup
        (IF col = "flags" THEN {}
         ELSE IF col \in PM_COLUMNS \/ col \in PN_COLUMNS
              THEN (IF num /\ cell.v < 0 THEN {"negative"} ELSE {})
         ELSE IF col = "voc" \/ col = "nox"
              THEN (IF num /\ cell.v < 0 THEN {"negative"} ELSE {})
                   \cup (IF config.voc_nox_zero_mode = "mask_inactive" /\ num /\ cell.v = 0
                         THEN {"inactive_zero"} ELSE {})
         ELSE IF col \in DOMAIN ranges
              THEN (IF num /\ cell.v < ranges[col][1] THEN {"below_min"} ELSE {})
                   \cup (IF num /\ cell.v > ranges[col][2] THEN {"above_max"} ELSE {})
         ELSE IF col = "co2_uncomp"
              THEN (IF num /\ cell.v <= 0 THEN {"non_positive"} ELSE {})
         ELSE {})

MaskReasonNames ==
    {"null", "negative", "inactive_zero", "below_min", "above_max", "non_positive"}

\* reasons[col]: a reason is recorded only when its count is positive
column_reasons(col, series, config) ==
    LET count(r) == Cardinality({i \in 1..Len(series) : r \in cell_reasons(col, series[i], config)})
    IN [r \in {x \in MaskReasonNames : count(x) > 0} |-> count(r)]

\* apply_validity_masks(df, config).  clean is a copy of df; the flags
\* column leaves the loop before clean.loc[~valid, col] = pd.NA.
apply_validity_masks(df, config) ==
    LET cols == DOMAIN df.cols
        valid(col) == [i \in 1..Len(df.cols[col]) |-> cell_valid(col, df.cols[col][i], config)]
    IN  [masks |-> [col \in cols |-> valid(col)],
         clean |-> [timestamp |-> df.timestamp,
                    cols |-> [col \in cols |->
                                IF col = "flags" THEN df.cols[col]
                                ELSE [i \in 1..Len(df.cols[col]) |->
                                        IF valid(col)[i] THEN df.cols[col][i] ELSE NaN]]],
         reasons |-> [col \in cols |-> column_reasons(col, df.cols[col], config)]]

\* the argument after a call that writes to df itself (clean = df, no copy)
table_after_masks_no_copy(df, config) == apply_validity_masks(df, config).clean

\* What the argument table holds after a call: apply_validity_masks writes
\* to clean = df.copy() only, so the argument is as it was.
table_after_masks(df, config) == df

(***************************************************************************)
(* Gap detector (app/data/gaps.py)                                         *)
(*                                                                         *)
(* A timestamp is a cell [nan, v]: nan = TRUE is NaT, otherwise v counts   *)
(* seconds.  The factor is a fraction n/d.                                 *)
(***************************************************************************)
\* times.diff(): entry i is times[i] - times[i-1]; the first entry, and any
\* difference with a NaT, is missing
time_diff(times) ==
    [i \in 1..Len(times) |->
        IF i = 1 \/ times[i].nan \/ times[i - 1].nan THEN NaN
        ELSE Num(times[i].v - times[i - 1].v)]

\* the positions .dropna() keeps
not_na_positions(series) == {i \in 1..Len(series) : ~series[i].nan}

\* the k-th smallest of the values at positions pos of series (k from 1)
kth_smallest(series, pos, k) ==
    CHOOSE x \in {series[i].v : i \in pos} :
        /\ Cardinality({i \in pos : series[i].v < x}) < k
        /\ Cardinality({i \in pos : series[i].v <= x}) >= k

\* twice the median of the values at positions pos (pos is not empty): the
\* middle value twice, or the sum of the two middle values
median_twice(series, pos) ==
    LET n == Cardinality(pos)
    IN  IF n % 2 = 1 THEN 2 * kth_smallest(series, pos, (n + 1) \div 2)
        ELSE kth_smallest(series, pos, n \div 2) + kth_smallest(series, pos, n \div 2 + 1)

\* the pairs of a set of row positions, in ascending order of position
RECURSIVE gaps_in_order(_, _)
gaps_in_order(times, pos) ==
    IF pos = {} THEN <<>>
    ELSE LET idx == CHOOSE i \in pos : \A j \in pos : i <= j
         IN <<[start |-> times[idx - 1], end |-> times[idx]]>>
            \o gaps_in_order(times, pos \ {idx})

\* detect_gaps taking the largest delta, not the median, for the cadence
detect_gaps_max_cadence(times, factor) ==
    LET deltas == time_diff(times)
        kept == not_na_positions(deltas)
        median2 == 2 * kth_smallest(deltas, kept, Cardinality(kept))
    IN  IF Len(times) = 0 THEN <<>>
        ELSE IF kept = {} THEN <<>>
        ELSE IF median2 <= 0 THEN <<>>
        ELSE gaps_in_order(times,
                {idx \in kept : deltas[idx].v * 2 * factor.d > median2 * factor.n})

detect_gaps(times, factor) ==
    LET deltas == time_diff(times)
        kept == not_na_positions(deltas)
        median2 == median_twice(deltas, kept)
    IN  IF Len(times) = 0 THEN <<>>
        ELSE IF kept = {} THEN <<>>
        ELSE IF median2 <= 0 THEN <<>>
        ELSE gaps_in_order(times,
                {idx \in kept : deltas[idx].v * 2 * factor.d > median2 * factor.n})

(***************************************************************************)
(* Column aliases (app/data/aliases.py)                                    *)
(***************************************************************************)
\* the keys of ALIAS_MAP in insertion order
ALIAS_KEYS ==
    <<"timestamp", "flags", "co2", "co2_uncomp", "pm1_0", "pm2_5",
      "pm4_0", "pm10", "pn0_5", "pn1_0", "pn2_5", "pn4_0",
      "pn10_0", "temp_c", "rh", "pressure", "voc", "nox">>

ALIAS_MAP ==
    [canon \in {ALIAS_KEYS[i] : i \in 1..Len(ALIAS_KEYS)} |->
        CASE canon = "timestamp" -> <<"Timestamp", "timestamp", "time", "epoch", "ts">>
          [] canon = "flags" -> <<"FLAGS", "flags">>
          [] canon = "co2" -> <<"CO2", "co2", "co2_ppm">>
          [] canon = "co2_uncomp" -> <<"CO2_UNCOMP", "co2_uncomp">>
          [] canon = "pm1_0" -> <<"PM1.0", "PM1", "pm1_0">>
          [] canon = "pm2_5" -> <<"PM2.5", "PM2_5", "pm2_5">>
          [] canon = "pm4_0" -> <<"PM4.0", "PM4", "pm4_0">>
          [] canon = "pm10" -> <<"PM10", "PM10.0", "pm10">>
          [] canon = "pn0_5" -> <<"PN0.5", "PN0_5", "pn0_5">>
          [] canon = "pn1_0" -> <<"PN1.0", "PN1", "pn1_0">>
          [] canon = "pn2_5" -> <<"PN2.5", "PN2_5", "pn2_5">>
          [] canon = "pn4_0" -> <<"PN4.0", "PN4", "pn4_0">>
          [] canon = "pn10_0" -> <<"PN10.0", "PN10", "pn10_0">>
          [] canon = "temp_c" -> <<"TempC", "temp_c", "temperature">>
          [] canon = "rh" -> <<"RH", "rh", "humidity">>
          [] canon = "pressure" -> <<"PRESSURE", "pressure", "press">>
          [] canon = "voc" -> <<"VOC", "voc">>
          [] canon = "nox" -> <<"NOX", "NOX", "nox">>]

CANONICAL_ORDER ==
    <<"timestamp", "flags", "co2", "co2_uncomp", "pm1_0", "pm2_5",
      "pm4_0", "pm10", "pn0_5", "pn1_0", "pn2_5", "pn4_0",
      "pn10_0", "temp_c", "rh", "voc", "nox", "pressure">>


\* str.lower() on the header and alias strings of this model: the strings
\* listed have an upper-case letter, every other string is lower-case already
lower(s) ==
    CASE s = "Timestamp" -> "timestamp"
      [] s = "FLAGS" -> "flags"
      [] s = "CO2" -> "co2"
      [] s = "CO2_UNCOMP" -> "co2_uncomp"
      [] s = "PM1.0" -> "pm1.0"
      [] s = "PM1" -> "pm1"
      [] s = "PM2.5" -> "pm2.5"
      [] s = "PM2_5" -> "pm2_5"
      [] s = "PM4.0" -> "pm4.0"
      [] s = "PM4" -> "pm4"
      [] s = "PM10" -> "pm10"
      [] s = "PM10.0" -> "pm10.0"
      [] s = "PN0.5" -> "pn0.5"
      [] s = "PN0_5" -> "pn0_5"
      [] s = "PN1.0" -> "pn1.0"
      [] s = "PN1" -> "pn1"
      [] s = "PN2.5" -> "pn2.5"
      [] s = "PN2_5" -> "pn2_5"
      [] s = "PN4.0" -> "pn4.0"
      [] s = "PN4" -> "pn4"
      [] s = "PN10.0" -> "pn10.0"
      [] s = "PN10" -> "pn10"
      [] s = "TempC" -> "tempc"
      [] s = "RH" -> "rh"
      [] s = "PRESSURE" -> "pressure"
      [] s = "VOC" -> "voc"
      [] s = "NOX" -> "nox"
      [] s = "Battery" -> "battery"
      [] s = "TIMESTAMP" -> "timestamp"
      [] s = "Co2" -> "co2"
      [] OTHER -> s

\* the positions of a set, in ascending order
RECURSIVE ascending(_)
ascending(pos) ==
    IF pos = {} THEN <<>>
    ELSE LET i == CHOOSE x \in pos : \A y \in pos : x <= y
         IN <<i>> \o ascending(pos \ {i})

\* {c.lower(): c for c in columns}: of the headers with one lower-case form
\* the last one stays
lower_map(columns) ==
    [k \in {lower(columns[i]) : i \in 1..Len(columns)} |->
        columns[CHOOSE i \in 1..Len(columns) :
                    /\ lower(columns[i]) = k
                    /\ \A j \in 1..Len(columns) : lower(columns[j]) = k => j <= i]]

\* the position of the first alias whose lower-case form is a key, 0 if none
first_alias(aliases, keys) ==
    LET hits == {a \in 1..Len(aliases) : lower(aliases[a]) \in keys}
    IN  IF hits = {} THEN 0 ELSE CHOOSE a \in hits : \A b \in hits : a <= b

normalize_columns(columns) ==
    LET lm == lower_map(columns)
        hit(canon) == first_alias(ALIAS_MAP[canon], DOMAIN lm)
    IN  [canon \in {c \in DOMAIN ALIAS_MAP : hit(c) # 0} |->
            lm[lower(ALIAS_MAP[canon][hit(canon)])]]

(***************************************************************************)
(* Flat-line diagnostics (app/diagnostics/flatline.py)                     *)
(***************************************************************************)
FlatlineConfig == [min_samples |-> 5, min_minutes |-> 10, multi_channel_threshold |-> 3]

\* position i starts a run: the loop closes the run before i
run_break(values, i) ==
    i = 1 \/ values[i].nan \/ values[i - 1].nan \/ values[i] # values[i - 1]

\* the mask of the runs that are both long in samples and long in time
flatline_mask_both_conditions(values, times, min_samples, min_minutes) ==
    [i \in 1..Len(values) |->
        LET run_start == CHOOSE a \in 1..i :
                            /\ run_break(values, a)
                            /\ \A b \in (a + 1)..i : ~run_break(values, b)
            run_last == CHOOSE e \in i..Len(values) :
                            /\ e = Len(values) \/ run_break(values, e + 1)
                            /\ \A b \in (i + 1)..e : ~run_break(values, b)
        IN  /\ (run_last - run_start + 1) >= min_samples
            /\ ~times[run_last].nan
            /\ ~times[run_start].nan
            /\ times[run_last].v - times[run_start].v >= min_minutes * 60]

\* _flatline_mask(series, min_samples, min_minutes); a duration with a NaT
\* end compares False
flatline_mask(values, times, min_samples, min_minutes) ==
    [i \in 1..Len(values) |->
        LET run_start == CHOOSE a \in 1..i :
                            /\ run_break(values, a)
                            /\ \A b \in (a + 1)..i : ~run_break(values, b)
            run_last == CHOOSE e \in i..Len(values) :
                            /\ e = Len(values) \/ run_break(values, e + 1)
                            /\ \A b \in (i + 1)..e : ~run_break(values, b)
        IN  \/ (run_last - run_start + 1) >= min_samples
            \/ /\ ~times[run_last].nan
               /\ ~times[run_start].nan
               /\ times[run_last].v - times[run_start].v >= min_minutes * 60]

\* col.startswith("pm") or col.startswith("pn"), for the column names of
\* this model
starts_with_pm_pn(col) == col \in PM_COLUMNS \cup PN_COLUMNS

\* flag_flatlines(df.set_index("timestamp"), cfg)
flag_flatlines(df, cfg) ==
    LET cols == DOMAIN df.cols
        n == Len(df.timestamp)
        flag(col) == flatline_mask(df.cols[col], df.timestamp, cfg.min_samples, cfg.min_minutes)
        pm_pn_cols == {c \in cols : starts_with_pm_pn(c)}
        combined(i) == Cardinality({c \in pm_pn_cols : flag(c)[i]})
    IN  IF n = 0 \/ cols = {} THEN <<>>
        ELSE [col \in cols \cup (IF pm_pn_cols = {} THEN {} ELSE {"multi_channel_flatline"}) |->
                IF col \in cols THEN flag(col)
                ELSE [i \in 1..n |-> combined(i) >= cfg.multi_channel_threshold]]

\* the automask loop taking every flagged column
automask_every_column(clean, masks, flags) ==
    LET hit(col) == col \in DOMAIN flags
    IN  [clean |-> [clean EXCEPT !.cols =
                        [col \in DOMAIN clean.cols |->
                            IF hit(col)
                            THEN [i \in 1..Len(clean.cols[col]) |->
                                    IF flags[col][i] THEN NaN ELSE clean.cols[col][i]]
                            ELSE clean.cols[col]]],
         masks |-> [col \in DOMAIN masks |->
                        IF hit(col)
                        THEN [i \in 1..Len(masks[col]) |-> masks[col][i] /\ ~flags[col][i]]
                        ELSE masks[col]]]

\* the automask loop writing to clean and leaving the masks
automask_clean_only(clean, masks, flags) ==
    LET hit(col) == col \in DOMAIN flags /\ starts_with_pm_pn(col)
    IN  [clean |-> [clean EXCEPT !.cols =
                        [col \in DOMAIN clean.cols |->
                            IF hit(col)
                            THEN [i \in 1..Len(clean.cols[col]) |->
                                    IF flags[col][i] THEN NaN ELSE clean.cols[col][i]]
                            ELSE clean.cols[col]]],
         masks |-> masks]

\* the flatline_automask loop of load_csv: the flagged cells of the pm/pn
\* columns become missing in clean and invalid in masks
automask(clean, masks, flags) ==
    LET hit(col) == col \in DOMAIN flags /\ starts_with_pm_pn(col)
    IN  [clean |-> [clean EXCEPT !.cols =
                        [col \in DOMAIN clean.cols |->
                            IF hit(col)
                            THEN [i \in 1..Len(clean.cols[col]) |->
                                    IF flags[col][i] THEN NaN ELSE clean.cols[col][i]]
                            ELSE clean.cols[col]]],
         masks |-> [col \in DOMAIN masks |->
                        IF hit(col)
                        THEN [i \in 1..Len(masks[col]) |-> masks[col][i] /\ ~flags[col][i]]
                        ELSE masks[col]]]

(***************************************************************************)
(* CSV importer (app/data/importer.py)                                     *)
(*                                                                         *)
(* A file is [headers, rows]: headers is the header line (stripped,        *)
(* distinct), a row gives the text of its first field (first) and the      *)
(* text of all its other fields (rest).  A field is [num, v]: num = FALSE  *)
(* is text that is not a number.  In the first column the number v stands  *)
(* for 1000 * v, so that epoch seconds and epoch milliseconds both fit.    *)
(* Datetimes are cells counting seconds; NaT is the missing cell.          *)
(***************************************************************************)
NaT == NaN

\* pd.to_numeric(text, errors="coerce")
to_numeric(field) == IF field.num THEN Num(field.v) ELSE NaN

\* the field of row i in column j
csv_field(file, i, j) == IF j = 1 THEN file.rows[i].first ELSE file.rows[i].rest

\* df.rename(columns=rename_map), rename_map[original] = canon built in the
\* order of normalized: the column names after renaming, by position
renamed_columns(columns) ==
    LET normalized == normalize_columns(columns)
        canons(original) == {k \in 1..Len(ALIAS_KEYS) :
                                /\ ALIAS_KEYS[k] \in DOMAIN normalized
                                /\ normalized[ALIAS_KEYS[k]] = original}
    IN  [j \in 1..Len(columns) |->
            IF canons(columns[j]) = {} THEN columns[j]
            ELSE ALIAS_KEYS[CHOOSE k \in canons(columns[j]) :
                                \A m \in canons(columns[j]) : m <= k]]

\* 1e12 of importer.py, in the unit of the first column (thousands)
MsThreshold == 1000000000

\* median > 1e12 over the numeric cells at positions pos (not empty); the
\* mean of the two middle values is compared without forming their sum
median_above(series, pos, limit) ==
    LET n == Cardinality(pos)
    IN  IF n % 2 = 1 THEN kth_smallest(series, pos, (n + 1) \div 2) > limit
        ELSE (kth_smallest(series, pos, n \div 2) - limit)
                + (kth_smallest(series, pos, n \div 2 + 1) - limit) > 0

\* _convert_timestamp on the numeric cells ts: seconds since the epoch
convert_timestamp(ts) ==
    LET unit_ms == median_above(ts, not_na_positions(ts), MsThreshold)
    IN  [i \in 1..Len(ts) |->
            IF ts[i].nan THEN NaT
            ELSE Num(IF unit_ms THEN ts[i].v ELSE ts[i].v * 1000)]

\* the rows of a table at the positions order[1], order[2], ...
take_rows(df, order) ==
    [timestamp |-> [k \in 1..Len(order) |-> df.timestamp[order[k]]],
     cols |-> [col \in DOMAIN df.cols |-> [k \in 1..Len(order) |-> df.cols[col][order[k]]]]]

\* df.sort_values("timestamp"): the default kind is quicksort, which is not
\* stable, so rows with equal timestamps come out in any order; rows
\* without a timestamp go last, in their order in the file
sort_orders(times) ==
    LET n == Len(times)
    IN  {p \in [1..n -> 1..n] :
            /\ \A a, b \in 1..n : a # b => p[a] # p[b]
            /\ \A a, b \in 1..n : a < b =>
                    IF times[p[a]].nan THEN times[p[b]].nan /\ p[a] < p[b]
                    ELSE times[p[b]].nan \/ times[p[a]].v <= times[p[b]].v}

\* df.drop_duplicates(subset=["timestamp"], keep=keep): the positions kept
drop_duplicates(times, keep) ==
    {i \in 1..Len(times) :
        IF keep = "first" THEN \A j \in 1..(i - 1) : times[j] # times[i]
        ELSE \A j \in (i + 1)..Len(times) : times[j] # times[i]}

\* the tables _sort_dedup can return
sort_dedup(df, config) ==
    {LET sorted == take_rows(df, order)
     IN take_rows(sorted, ascending(drop_duplicates(sorted.timestamp, config.dedup_keep))) :
        order \in sort_orders(df.timestamp)}

\* the seconds of a resampling interval (pd.tseries.frequencies.to_offset)
interval_seconds(interval) ==
    CASE interval = "10min" -> 600
      [] interval = "1000s" -> 1000
      [] interval = "1h" -> 3600

\* seconds in a day: resample anchors its buckets at midnight of the first
\* day (origin="start_day")
DaySeconds == 86400

RECURSIVE sum_cells(_, _)
sum_cells(series, pos) ==
    IF pos = {} THEN 0
    ELSE LET i == CHOOSE x \in pos : TRUE IN series[i].v + sum_cells(series, pos \ {i})

\* a cell as a fraction
as_fraction(cell) == IF cell.nan THEN FNaN ELSE Frac(cell.v, 1)

\* the bucket labels of df.resample(interval) for a table whose rows rows
\* (ascending, not empty) have a timestamp
bucket_labels(times, rows, step) ==
    LET tmin == times[rows[1]].v
        tmax == times[rows[Len(rows)]].v
        origin == tmin - (tmin % DaySeconds)
        label_of(t) == origin + ((t - origin) \div step) * step
    IN  [b \in 1..((label_of(tmax) - label_of(tmin)) \div step + 1) |->
            label_of(tmin) + (b - 1) * step]

\* .resample(interval).mean() of one column: the mean of the values present
\* in each bucket [label, label + step), NaN for a bucket without one
bucket_means(series, times, rows, labels, step) ==
    [b \in 1..Len(labels) |->
        LET have == {k \in 1..Len(rows) :
                        /\ times[rows[k]].v >= labels[b]
                        /\ times[rows[k]].v < labels[b] + step
                        /\ ~series[rows[k]].nan}
        IN  IF have = {} THEN FNaN
            ELSE Ratio(sum_cells([k \in 1..Len(rows) |-> series[rows[k]]], have),
                       Cardinality(have))]

\* .resample(interval).ffill() of the flags column: Resampler._upsample
\* copies the column onto the labels when the index has the frequency of
\* the interval and as many rows as there are labels, and otherwise
\* reindexes with method="ffill": the row at or last before each label
bucket_ffill(series, times, rows, labels, step) ==
    LET n == Len(rows)
        equal_sampling ==
            /\ n >= 3
            /\ \A k \in 2..n : times[rows[k]].v - times[rows[k - 1]].v = step
            /\ n = Len(labels)
    IN  [b \in 1..Len(labels) |->
            IF equal_sampling THEN as_fraction(series[rows[b]])
            ELSE LET before == {k \in 1..n : times[rows[k]].v <= labels[b]}
                 IN  IF before = {} THEN FNaN
                     ELSE as_fraction(series[rows[CHOOSE k \in before :
                                                    \A m \in before : m <= k]])]

\* _resample(df, interval) for a table in ascending order of timestamp: the
\* bucket labels as the timestamp column, the bucket means of every column
\* (all are numeric after _coerce_numeric), and the flags column replaced by
\* its forward fill.  Rows without a timestamp belong to no bucket.
resample(df, interval) ==
    LET step == interval_seconds(interval)
        rows == ascending(not_na_positions(df.timestamp))
        labels == IF rows = <<>> THEN <<>> ELSE bucket_labels(df.timestamp, rows, step)
    IN  [timestamp |-> [b \in 1..Len(labels) |-> Num(labels[b])],
         cols |-> [col \in DOMAIN df.cols |->
                    IF col = "flags"
                    THEN bucket_ffill(df.cols[col], df.timestamp, rows, labels, step)
                    ELSE bucket_means(df.cols[col], df.timestamp, rows, labels, step)]]

NoFrame == [timestamp |-> <<>>, cols |-> <<>>]

\* resampled = None
NotResampled == [timestamp |-> <<>>, cols |-> <<>>, none |-> TRUE]

Resampled(df) == [timestamp |-> df.timestamp, cols |-> df.cols, none |-> FALSE]

NoDataset ==
    [raw |-> NoFrame, clean |-> NoFrame, masks |-> <<>>, flags |-> <<>>,
     metadata |-> <<>>, resampled |-> NotResampled]

Raised(message) == [error |-> message, dataset |-> NoDataset]

\* load_csv has not returned
NoResult == [error |-> "", dataset |-> NoDataset]

\* the part of load_csv after _sort_dedup, for the table df it returned;
\* _resample reads clean before the flat-line automask writes to it.  The
\* path stands for the file it names.
dataset_from(path, df, names, config) ==
    LET mask_result == apply_validity_masks(df, config)
        resampled == IF config.resample_interval # "None"
                     THEN Resampled(resample(mask_result.clean, config.resample_interval))
                     ELSE NotResampled
        gaps == detect_gaps(mask_result.clean.timestamp, config.gap_factor)
        flags == IF config.flatline_diag_enabled
                 THEN flag_flatlines(mask_result.clean, FlatlineConfig) ELSE <<>>
        masked == IF config.flatline_diag_enabled /\ config.flatline_automask
                  THEN automask(mask_result.clean, mask_result.masks, flags)
                  ELSE [clean |-> mask_result.clean, masks |-> mask_result.masks]
    IN  [raw |-> df,
         clean |-> masked.clean,
         masks |-> masked.masks,
         flags |-> flags,
         metadata |-> [path |-> path,
                       gaps |-> gaps,
                       mask_reasons |-> mask_result.reasons,
                       columns |-> SelectSeq(CANONICAL_ORDER,
                                     LAMBDA c : \E j \in 1..Len(names) : names[j] = c),
                       resample_interval |-> config.resample_interval,
                       resampled_rows |-> IF resampled.none THEN NaN
                                          ELSE Num(Len(resampled.timestamp))],
         resampled |-> resampled]

\* load_csv(path, config): the outcomes it can have, each an exception
\* (error is its message) or a Dataset (error is "")
load_csv(file, config) ==
    LET names == renamed_columns(file.headers)
        n == Len(file.rows)
        at(name) == {j \in 1..Len(names) : names[j] = name}
        ts == [i \in 1..n |-> to_numeric(csv_field(file, i, CHOOSE j \in at("timestamp") : TRUE))]
        df == [timestamp |-> convert_timestamp(ts),
               cols |-> [name \in {names[j] : j \in 1..Len(names)} \ {"timestamp"} |->
                            [i \in 1..n |-> to_numeric(csv_field(file, i, CHOOSE j \in at(name) : TRUE))]]]
    IN  IF at("timestamp") = {} THEN {Raised("CSV missing timestamp column")}
        ELSE IF \E name \in {names[j] : j \in 1..Len(names)} : Cardinality(at(name)) > 1
             \* df[col] is a DataFrame where a name occurs twice: to_numeric raises TypeError
             THEN {Raised("arg must be a list, tuple, 1-d array, or Series")}
        ELSE IF not_na_positions(ts) = {} THEN {Raised("Timestamp column is not numeric")}
        ELSE {[error |-> "", dataset |-> dataset_from(file, sorted, names, config)] :
                sorted \in sort_dedup(df, config)}

\* the re-application leaving the resampled table and the flags it finds
\* where the config asks for none
reapply_config_keeping_stale(dataset, config) ==
    LET mask_result == apply_validity_masks(dataset.raw, config)
        gaps == detect_gaps(mask_result.clean.timestamp, config.gap_factor)
        resampled == IF config.resample_interval # "None"
                     THEN Resampled(resample(mask_result.clean, config.resample_interval))
                     ELSE dataset.resampled
        flags == IF config.flatline_diag_enabled
                 THEN flag_flatlines(mask_result.clean, FlatlineConfig) ELSE dataset.flags
        masked == IF config.flatline_diag_enabled /\ config.flatline_automask
                  THEN automask(mask_result.clean, mask_result.masks, flags)
                  ELSE [clean |-> mask_result.clean, masks |-> mask_result.masks]
    IN  [raw |-> dataset.raw,
         clean |-> masked.clean,
         masks |-> masked.masks,
         flags |-> flags,
         metadata |-> [dataset.metadata EXCEPT
                          !.mask_reasons = mask_result.reasons,
                          !.gaps = gaps,
                          !.resample_interval = config.resample_interval,
                          !.resampled_rows = IF resampled.none THEN NaN
                                             ELSE Num(Len(resampled.timestamp))],
         resampled |-> resampled]

\* the Dataset after MainWindow._on_processing_config_changed re-applied
\* config to it: masks from raw, gaps, _resample on the clean table before
\* the automask, then the flat-line flags and the automask
reapply_config(dataset, config) ==
    LET mask_result == apply_validity_masks(dataset.raw, config)
        gaps == detect_gaps(mask_result.clean.timestamp, config.gap_factor)
        resampled == IF config.resample_interval # "None"
                     THEN Resampled(resample(mask_result.clean, config.resample_interval))
                     ELSE NotResampled
        flags == IF config.flatline_diag_enabled
                 THEN flag_flatlines(mask_result.clean, FlatlineConfig) ELSE <<>>
        masked == IF config.flatline_diag_enabled /\ config.flatline_automask
                  THEN automask(mask_result.clean, mask_result.masks, flags)
                  ELSE [clean |-> mask_result.clean, masks |-> mask_result.masks]
    IN  [raw |-> dataset.raw,
         clean |-> masked.clean,
         masks |-> masked.masks,
         flags |-> flags,
         metadata |-> [dataset.metadata EXCEPT
                          !.mask_reasons = mask_result.reasons,
                          !.gaps = gaps,
                          !.resample_interval = config.resample_interval,
                          !.resampled_rows = IF resampled.none THEN NaN
                                             ELSE Num(Len(resampled.timestamp))],
         resampled |-> resampled]

(***************************************************************************)
(* Ventilation engine (app/analysis/ventilation.py)                        *)
(*                                                                         *)
(* Times count minutes.  CO2 values are cells; an excess above baseline    *)
(* that enters a logarithm is a power of two, so that np.log is exact in   *)
(* units of ln 2.  A rate is one of: Zero; LnTwo(q), q * ln 2 per hour;    *)
(* PerTau(a, b), the reciprocal of a time constant of a + b / e minutes;   *)
(* NotFinite, the NaN a missing bracketing sample gives.                   *)
(***************************************************************************)
\* np.e as a fraction: 2721/1001 is the convergent of e below it, and no
\* fraction with a denominator under 9545 lies between the two, so every
\* comparison with e made on the values of this model comes out as with e
E_NUM == 2721

E_DEN == 1001

\* c <= peak / np.e
at_most_peak_over_e(c, peak) == c * E_NUM <= peak * E_DEN

\* np.log of a power of two, in units of ln 2
Log2(x) == CHOOSE a \in 0..12 : 2 ^ a = x

Zero == [kind |-> "zero"]

NotFinite == [kind |-> "nan"]

LnTwo(q) == IF q.n = 0 THEN Zero ELSE [kind |-> "ln2", q |-> q]

PerTau(a, b) == [kind |-> "per_tau", a |-> a, b |-> b]

\* DecayFitResult(0.0, 0.0, baseline, 0.0, None, warnings, pd.Series(dtype=float))
degenerate_result(baseline, warning) ==
    [k_per_hr |-> Zero, ach |-> Zero, baseline |-> baseline, r2 |-> Frac(0, 1),
     ci |-> "None", warnings |-> <<warning>>, residuals |-> <<>>]

\* an exception leaving the function
raises(message) == [raised |-> message]

\* (co2 > baseline): the positions that hold a value above baseline
above_baseline(co2, baseline) ==
    {i \in 1..Len(co2) : ~co2[i].nan /\ co2[i].v > baseline}

\* the result of time_constant_63 carrying an R^2 of 1
time_constant_result_perfect(k, baseline) ==
    [k_per_hr |-> k, ach |-> k, baseline |-> baseline, r2 |-> Frac(1, 1),
     ci |-> "None", warnings |-> <<>>, residuals |-> <<>>]

\* the result a time_constant_63 fit returns: r2 = 0.0, no residuals
time_constant_result(k, baseline) ==
    [k_per_hr |-> k, ach |-> k, baseline |-> baseline, r2 |-> Frac(0, 1),
     ci |-> "None", warnings |-> <<>>, residuals |-> <<>>]

\* the time_constant_63 branch of fit_co2_decay after the count check
time_constant_fit(times, co2, baseline) ==
    LET n == Len(co2)
        c_excess == [i \in 1..n |-> IF co2[i].nan THEN NaN ELSE Num(co2[i].v - baseline)]
        nums == not_na_positions(c_excess)
        \* np.nanargmax: the first position of the largest value
        peak_idx == CHOOSE i \in nums :
                        \A j \in nums : \/ c_excess[j].v < c_excess[i].v
                                        \/ c_excess[j].v = c_excess[i].v /\ i <= j
        peak_value == c_excess[peak_idx].v
        crossings == {i \in nums : i > peak_idx /\ at_most_peak_over_e(c_excess[i].v, peak_value)}
        cross_idx == CHOOSE i \in crossings : \A j \in crossings : i <= j
        t0 == times[cross_idx - 1]
        t1 == times[cross_idx]
        y0 == c_excess[cross_idx - 1]
        y1 == c_excess[cross_idx]
        t_peak == times[peak_idx]
        \* t_cross - t_peak = a + b / e minutes
        a == IF y1.v = y0.v THEN Ratio(t1 - t_peak, 1)
             ELSE Ratio((t0 - t_peak) * (y1.v - y0.v) - (t1 - t0) * y0.v, y1.v - y0.v)
        b == IF y1.v = y0.v THEN Ratio(0, 1)
             ELSE Ratio((t1 - t0) * peak_value, y1.v - y0.v)
        \* tau_hours <= 0, i.e. a * e + b <= 0
        tau_not_positive == a.n * b.d * E_NUM + b.n * a.d * E_DEN <= 0
        fitted(k) == time_constant_result(k, baseline)
    IN  IF nums = {} THEN raises("ValueError: All-NaN slice encountered")
        ELSE IF \A i \in nums : c_excess[i].v <= 0
        THEN degenerate_result(baseline, "No positive excess CO2 above baseline")
        ELSE IF crossings = {}
        THEN degenerate_result(baseline, "Did not reach 63% decay threshold")
        ELSE IF y0.nan THEN fitted(NotFinite)
        ELSE IF tau_not_positive THEN degenerate_result(baseline, "Invalid time constant")
        ELSE fitted(PerTau(a, b))

\* the result of the regression and two_point branches from the fitted
\* rate and the residuals of y: R^2, its warning and the record returned
log_linear_result(y, residuals, k_per_minute, baseline) ==
    LET m == Len(y)
        sy == FracSum([k \in 1..m |-> Ratio(y[k], 1)]).n
        ss_res == FracSum([k \in 1..m |-> FracMul(residuals[k], residuals[k])])
        dev(k) == FracSub(Ratio(y[k], 1), Ratio(sy, m))
        ss_tot == FracSum([k \in 1..m |-> FracMul(dev(k), dev(k))])
        r2 == IF ss_tot.n = 0 THEN Frac(0, 1)
              ELSE FracSub(Ratio(1, 1), Ratio(ss_res.n * ss_tot.d, ss_res.d * ss_tot.n))
        k == LnTwo(FracMul(k_per_minute, Ratio(60, 1)))
    IN  [k_per_hr |-> k, ach |-> k, baseline |-> baseline, r2 |-> r2, ci |-> "None",
         warnings |-> IF FracLt(r2, Ratio(6, 10)) THEN <<"Low R^2">> ELSE <<>>,
         residuals |-> residuals]

\* the fit of y against t, minutes since the first valid sample: the rate
\* and the fitted values of the method
log_linear_line(t, y, baseline, method) ==
    LET m == Len(y)
        st == FracSum([k \in 1..m |-> Ratio(t[k], 1)]).n
        sy == FracSum([k \in 1..m |-> Ratio(y[k], 1)]).n
        stt == FracSum([k \in 1..m |-> Ratio(t[k] * t[k], 1)]).n
        sty == FracSum([k \in 1..m |-> Ratio(t[k] * y[k], 1)]).n
        \* np.polyfit(t, y, 1), per minute
        slope == Ratio(m * sty - st * sy, m * stt - st * st)
        intercept == FracMul(FracSub(Ratio(sy, 1), FracMul(slope, Ratio(st, 1))), Ratio(1, m))
        \* (y[0] - y[-1]) / (t[-1] - t[0]), clamped at 0, per minute
        two_point == Ratio(y[1] - y[m], t[m] - t[1])
        clamped == IF two_point.n < 0 THEN Ratio(0, 1) ELSE two_point
        k_per_minute == IF method = "two_point" THEN clamped ELSE FracSub(Ratio(0, 1), slope)
        yhat(k) == IF method = "two_point"
                   THEN FracSub(Ratio(y[1], 1), FracMul(clamped, Ratio(t[k], 1)))
                   ELSE FracAdd(intercept, FracMul(slope, Ratio(t[k], 1)))
    IN  log_linear_result(y, [k \in 1..m |-> FracSub(Ratio(y[k], 1), yhat(k))],
                          k_per_minute, baseline)

\* the regression and two_point branches of fit_co2_decay after the count
\* check: a fit of y = log(co2 - baseline) against the time since the first
\* valid sample
log_linear_fit(times, co2, baseline, method) ==
    LET valid == ascending(above_baseline(co2, baseline))
        m == Len(valid)
    IN  log_linear_line([k \in 1..m |-> times[valid[k]] - times[valid[1]]],
                        [k \in 1..m |-> Log2(co2[valid[k]].v - baseline)],
                        baseline, method)

\* fit_co2_decay accepting one sample fewer in each method
fit_co2_decay_one_fewer(times, co2, baseline, method) ==
    IF method = "time_constant_63"
    THEN IF Cardinality(above_baseline(co2, baseline)) < 1
         THEN degenerate_result(baseline, "Insufficient points above baseline")
         ELSE time_constant_fit(times, co2, baseline)
    ELSE IF Cardinality(above_baseline(co2, baseline)) < 2
         THEN degenerate_result(baseline, "Insufficient points above baseline")
         ELSE log_linear_fit(times, co2, baseline, method)

fit_co2_decay(times, co2, baseline, method) ==
    IF method = "time_constant_63"
    THEN IF Cardinality(above_baseline(co2, baseline)) < 2
         THEN degenerate_result(baseline, "Insufficient points above baseline")
         ELSE time_constant_fit(times, co2, baseline)
    ELSE IF Cardinality(above_baseline(co2, baseline)) < 3
         THEN degenerate_result(baseline, "Insufficient points above baseline")
         ELSE log_linear_fit(times, co2, baseline, method)

\* twice the centred rolling median of window 3 with min_periods = 1 at
\* position i: the middle of three values, or the mean of the two at an end
rolling_median_twice(excess, i) ==
    LET n == Len(excess)
        lo == IF i = 1 THEN 1 ELSE i - 1
        hi == IF i = n THEN n ELSE i + 1
        window == [k \in 1..(hi - lo + 1) |-> Num(excess[lo + k - 1])]
    IN  median_twice(window, 1..(hi - lo + 1))

\* labels counted from E0
event_label_from_zero(events) == "E" \o ToString(Len(events))

\* f"E{len(events) + 1}"
event_label(events) == "E" \o ToString(Len(events) + 1)

\* the fit of the segment peak_idx..end_idx and the DecayEvent appended;
\* fallback: 1/e was not reached and time_constant_63 was asked for
decay_event(log, peak_idx, end_time, used_method, fallback, result, events) ==
    [label |-> event_label(events),
     start |-> log.t[peak_idx],
     end |-> end_time,
     peak_time |-> log.t[peak_idx],
     peak_value |-> log.co2[peak_idx].v,
     baseline |-> log.baseline,
     method |-> used_method,
     ach |-> result.ach,
     r2 |-> result.r2,
     warnings |-> (IF fallback
                   THEN <<"Did not reach 1/e before next rise; used regression">>
                   ELSE <<>>) \o result.warnings]

\* the fit made with the requested method whether or not 1/e was reached
fitted_event_without_fallback(log, peak_idx, end_idx, fallback, events) ==
    decay_event(log, peak_idx, log.t[end_idx], log.method, fallback,
                fit_co2_decay([k \in 1..(end_idx - peak_idx + 1) |-> log.t[peak_idx + k - 1]],
                              [k \in 1..(end_idx - peak_idx + 1) |-> log.co2[peak_idx + k - 1]],
                              log.baseline, log.method),
                events)

\* fit_method, the call of fit_co2_decay on the segment and the append
fitted_event(log, peak_idx, end_idx, fallback, events) ==
    LET resolved_method == IF fallback THEN "regression" ELSE log.method
    IN  decay_event(log, peak_idx, log.t[end_idx], resolved_method, fallback,
                    fit_co2_decay([k \in 1..(end_idx - peak_idx + 1) |-> log.t[peak_idx + k - 1]],
                                  [k \in 1..(end_idx - peak_idx + 1) |-> log.co2[peak_idx + k - 1]],
                                  log.baseline, resolved_method),
                    events)

\* one pass of the loop over peaks for peak_idx: the DecayEvent appended,
\* or skip = TRUE where the loop continues.  log holds the sorted series
\* (t, co2, excess), the troughs and the arguments of the call.
candidate_event(log, peak_idx, events, last_end_time) ==
    LET n == Len(log.excess)
        peak_time == log.t[peak_idx]
        later_troughs == {i \in log.troughs : i > peak_idx}
        tail == (peak_idx + 1)..n
        \* np.nanargmin of the tail: the first position of the smallest value
        tail_idx == CHOOSE i \in tail :
                        \A j \in tail : \/ log.excess[i] < log.excess[j]
                                        \/ log.excess[i] = log.excess[j] /\ i <= j
        next_trough == IF later_troughs # {}
                       THEN CHOOSE i \in later_troughs : \A j \in later_troughs : i <= j
                       ELSE tail_idx
        drop_amount == log.excess[peak_idx] - log.excess[next_trough]
        t0 == log.t[peak_idx]
        t1 == log.t[next_trough]
        y0 == log.excess[peak_idx]
        y1 == log.excess[next_trough]
        peak_val == log.excess[peak_idx]
        reached == {j \in (peak_idx + 1)..next_trough :
                        at_most_peak_over_e(log.excess[j], peak_val)}
        reached_1e == reached # {}
        end_idx == IF reached_1e THEN CHOOSE j \in reached : \A k \in reached : j <= k
                   ELSE next_trough
        end_time == log.t[end_idx]
        fallback == ~reached_1e /\ log.method = "time_constant_63"
        skip == [skip |-> TRUE]
    IN  IF ~last_end_time.nan /\ peak_time < last_end_time.v + log.min_gap_minutes THEN skip
        ELSE IF later_troughs = {} /\ peak_idx >= n THEN skip
        ELSE IF drop_amount < log.min_drop THEN skip
        ELSE IF t1 - t0 <= 0 THEN skip
        ELSE IF y1 - y0 >= 0 THEN skip
        ELSE IF end_time - peak_time < log.min_minutes THEN skip
        ELSE IF (end_idx - peak_idx + 1) < log.min_points THEN skip
        ELSE [skip |-> FALSE,
              event |-> fitted_event(log, peak_idx, end_idx, fallback, events)]

\* the loop over peaks taking the sample after a rejected peak as the end
\* the spacing is measured from
RECURSIVE scan_peaks_rejects_move_end(_, _, _, _)
scan_peaks_rejects_move_end(log, peaks, events, last_end_time) ==
    IF peaks = <<>> THEN events
    ELSE LET c == candidate_event(log, peaks[1], events, last_end_time)
         IN  IF c.skip
             THEN scan_peaks_rejects_move_end(log, Tail(peaks), events,
                                              Num(log.t[peaks[1] + 1]))
             ELSE scan_peaks_rejects_move_end(log, Tail(peaks), Append(events, c.event),
                                              Num(c.event.end))

\* the loop over peaks, from the peaks still to visit
RECURSIVE scan_peaks(_, _, _, _)
scan_peaks(log, peaks, events, last_end_time) ==
    IF peaks = <<>> THEN events
    ELSE LET c == candidate_event(log, peaks[1], events, last_end_time)
         IN  IF c.skip THEN scan_peaks(log, Tail(peaks), events, last_end_time)
             ELSE scan_peaks(log, Tail(peaks), Append(events, c.event), Num(c.event.end))

\* the peak and trough scan over the smoothed excess and the loop over the
\* peaks it found
scan_smoothed(t, c, excess, smooth, arg) ==
    LET n == Len(excess)
        is_peak(i) ==
            IF i = 1 THEN smooth[1] >= smooth[2] /\ smooth[1] >= 2 * arg.min_drop
            ELSE /\ smooth[i] >= smooth[i - 1]
                 /\ smooth[i] > smooth[i + 1]
                 /\ smooth[i] >= 2 * arg.min_drop
        peaks == ascending({i \in 1..(n - 1) : is_peak(i)})
        troughs == {i \in 2..(n - 1) : smooth[i] <= smooth[i - 1] /\ smooth[i] < smooth[i + 1]}
        log == [t |-> t, co2 |-> c, excess |-> excess, troughs |-> troughs,
                baseline |-> arg.baseline, min_drop |-> arg.min_drop,
                min_minutes |-> arg.min_minutes, min_points |-> arg.min_points,
                min_gap_minutes |-> arg.min_gap_minutes, method |-> arg.method]
    IN  scan_peaks(log, peaks, <<>>, NaT)

\* the sorted series t, c: excess over the baseline, the early returns and
\* the rolling median (kept doubled)
detect_sorted(t, c, excess, arg) ==
    LET n == Len(excess)
    IN  IF n = 0 THEN <<>>
        ELSE IF \A k \in 1..n : excess[k] <= 0 THEN <<>>
        ELSE IF n < 3 THEN <<>>
        ELSE scan_smoothed(t, c, excess, [k \in 1..n |-> rolling_median_twice(excess, k)], arg)

\* detect_co2_decay_events; arg holds the arguments after co2: baseline,
\* min_drop, min_minutes, min_points, min_gap_minutes, method.  The times
\* that are not missing are distinct, so sort_values has one outcome.
detect_co2_decay_events(times, co2, arg) ==
    LET kept == {i \in 1..Len(times) : ~times[i].nan /\ ~co2[i].nan}
        n == Cardinality(kept)
        row(k) == CHOOSE i \in kept :
                    Cardinality({j \in kept : times[j].v < times[i].v}) = k - 1
    IN  detect_sorted([k \in 1..n |-> times[row(k)].v],
                      [k \in 1..n |-> co2[row(k)]],
                      [k \in 1..n |-> co2[row(k)].v - arg.baseline], arg)

(***************************************************************************)
(* ACH summary (app/analysis/ventilation.py, summarize_ach).  An ACH is    *)
(* finite, NaN or infinite; r2 and min_r2 count hundredths.                *)
(***************************************************************************)
FiniteAch(v) == [kind |-> "finite", v |-> v]

NanAch == [kind |-> "nan", v |-> 0]

InfAch == [kind |-> "inf", v |-> 0]

\* np.isfinite
isfinite(x) == x.kind = "finite"

\* the comprehension with r2 > min_r2
ach_values_strict(events, min_r2) ==
    LET keep(event) == ~event.r2.nan /\ event.r2.v > min_r2 /\ isfinite(event.ach)
        kept == SelectSeq(events, keep)
    IN  [k \in 1..Len(kept) |-> kept[k].ach.v]

\* the comprehension of summarize_ach: the ACH of the events that pass;
\* a NaN r2 fails r2 >= min_r2
ach_values(events, min_r2) ==
    LET keep(event) == ~event.r2.nan /\ event.r2.v >= min_r2 /\ isfinite(event.ach)
        kept == SelectSeq(events, keep)
    IN  [k \in 1..Len(kept) |-> kept[k].ach.v]

RECURSIVE SumSeq(_)
SumSeq(values) == IF values = <<>> THEN 0 ELSE values[1] + SumSeq(Tail(values))

\* the empty dict
EmptyStats == [key \in {} |-> 0]

\* np.std(arr, ddof=1): the square root of sum((x - mean)^2) / (n - 1),
\* kept as the fraction under the root
sample_std(values) ==
    LET n == Len(values)
        total == SumSeq(values)
        squares == SumSeq([k \in 1..n |-> values[k] * values[k]])
    IN  [sqrt |-> Ratio(n * squares - total * total, n * (n - 1))]

\* the dict built from the values that passed
ach_stats_of(values) ==
    LET n == Len(values)
        cells == [k \in 1..n |-> Num(values[k])]
    IN  IF n = 0 THEN EmptyStats
        ELSE [n |-> n,
              mean |-> Ratio(SumSeq(values), n),
              median |-> Ratio(median_twice(cells, 1..n), 2),
              min |-> CHOOSE x \in {values[k] : k \in 1..n} : \A k \in 1..n : x <= values[k],
              max |-> CHOOSE x \in {values[k] : k \in 1..n} : \A k \in 1..n : x >= values[k],
              std |-> IF n > 1 THEN sample_std(values) ELSE [sqrt |-> Ratio(0, 1)]]

summarize_ach(events, min_r2) == ach_stats_of(ach_values(events, min_r2))

\* the events of a detection the comprehension of summarize_ach keeps:
\* event.r2 >= min_r2 and np.isfinite(event.ach), with r2 a fraction and
\* min_r2 in hundredths
ach_selected(events, min_r2) ==
    LET keep(event) == /\ ~event.r2.nan
                       /\ 100 * event.r2.n >= min_r2 * event.r2.d
                       /\ event.ach.kind # "nan"
    IN  SelectSeq(events, keep)


(***************************************************************************)
(* Exposure engine (app/analysis/exposure.py)                              *)
(***************************************************************************)
\* the deltas with the first sample as wide as the second
time_deltas_backfilled(times) ==
    [i \in 1..Len(times) |->
        IF i = 1 THEN (IF Len(times) > 1 THEN times[2] - times[1] ELSE 0)
        ELSE times[i] - times[i - 1]]

\* _as_time_seconds: index.to_series().diff().dt.total_seconds().fillna(0)
time_deltas(times) ==
    [i \in 1..Len(times) |-> IF i = 1 THEN 0 ELSE times[i] - times[i - 1]]

\* series.fillna(0)
fillna_zero(values) == [i \in 1..Len(values) |-> IF values[i].nan THEN 0 ELSE values[i].v]

\* x / total_seconds if total_seconds > 0 else float("nan")
per_total(x, total_seconds) == IF total_seconds > 0 THEN Ratio(x, total_seconds) ELSE FNaN

\* the dict of exposure_stats from the filled values and the deltas
exposure_dict(values, dt, threshold) ==
    LET n == Len(values)
        total_seconds == SumSeq(dt)
        auc == SumSeq([i \in 1..n |-> values[i] * dt[i]])
        ex_auc == SumSeq([i \in 1..n |->
                            (IF values[i] - threshold > 0 THEN values[i] - threshold ELSE 0) * dt[i]])
        above_seconds == SumSeq([i \in 1..n |-> IF values[i] > threshold THEN dt[i] ELSE 0])
        mean == per_total(auc, total_seconds)
    IN  [auc |-> auc,
         exceedance_auc |-> ex_auc,
         time_above_seconds |-> above_seconds,
         total_seconds |-> total_seconds,
         mean |-> mean,
         mean_excess |-> per_total(ex_auc, total_seconds),
         time_above_pct |-> per_total(above_seconds * 100, total_seconds),
         relative_to_threshold |->
            IF threshold > 0 /\ ~mean.nan THEN Ratio(mean.n, mean.d * threshold) ELSE FNaN]

exposure_stats(times, values, threshold) ==
    exposure_dict(fillna_zero(values), time_deltas(times), threshold)


(***************************************************************************)
(* Smoothing filters (app/analysis/filters.py)                             *)
(*                                                                         *)
(* A series is a record of its index (seconds) and its values (fractions   *)
(* or FNaN).  A time constant is NoTau (None) or Tau(h), the float         *)
(* h / ln 2 seconds, so that math.exp(-dt / tau) is 2 ^ -(dt / h).         *)
(***************************************************************************)
NoTau == [none |-> TRUE, half_life |-> 0]

Tau(h) == [none |-> FALSE, half_life |-> h]

\* prev_time = None, and prev_time = times[i]
NoTime == [none |-> TRUE, t |-> 0]

At(t) == [none |-> FALSE, t |-> t]

\* math.exp(-dt / tau_seconds), dt a multiple of the half-life
exp_decay(dt, tau) == Ratio(1, 2 ^ (dt \div tau.half_life))

\* the loop of ema_time_aware moving the reference time at a missing sample too
RECURSIVE ema_loop_time_advancing(_, _, _, _, _, _, _, _)
ema_loop_time_advancing(times, values, tau, nan_mode, i, prev, prev_time, out) ==
    IF i > Len(values) THEN out
    ELSE IF values[i].nan
    THEN ema_loop_time_advancing(times, values, tau, nan_mode, i + 1,
                                 IF nan_mode = "reset" THEN FNaN ELSE prev,
                                 IF prev_time.none THEN prev_time ELSE At(times[i]),
                                 IF nan_mode = "hold" /\ ~prev.nan
                                 THEN [out EXCEPT ![i] = prev] ELSE out)
    ELSE LET dt == IF prev_time.none \/ times[i] - prev_time.t < 0 THEN 0
                   ELSE times[i] - prev_time.t
             decay == exp_decay(dt, tau)
             smoothed == IF prev_time.none \/ prev.nan THEN values[i]
                         ELSE FracAdd(FracMul(FracSub(Frac(1, 1), decay), values[i]),
                                      FracMul(decay, prev))
         IN  ema_loop_time_advancing(times, values, tau, nan_mode, i + 1, smoothed,
                                     At(times[i]), [out EXCEPT ![i] = smoothed])

\* the loop of ema_time_aware keeping the smoothed state over a missing
\* sample in every mode
RECURSIVE ema_loop_never_reset(_, _, _, _, _, _, _, _)
ema_loop_never_reset(times, values, tau, nan_mode, i, prev, prev_time, out) ==
    IF i > Len(values) THEN out
    ELSE IF values[i].nan
    THEN ema_loop_never_reset(times, values, tau, nan_mode, i + 1, prev, prev_time,
                              IF nan_mode = "hold" /\ ~prev.nan
                              THEN [out EXCEPT ![i] = prev] ELSE out)
    ELSE LET dt == IF prev_time.none \/ times[i] - prev_time.t < 0 THEN 0
                   ELSE times[i] - prev_time.t
             decay == exp_decay(dt, tau)
             smoothed == IF prev_time.none \/ prev.nan THEN values[i]
                         ELSE FracAdd(FracMul(FracSub(Frac(1, 1), decay), values[i]),
                                      FracMul(decay, prev))
         IN  ema_loop_never_reset(times, values, tau, nan_mode, i + 1, smoothed,
                                  At(times[i]), [out EXCEPT ![i] = smoothed])

\* for i, value in enumerate(values): the samples from position i on, with
\* the smoothed state prev, the reference time prev_time and the output so far
RECURSIVE ema_loop(_, _, _, _, _, _, _, _)
ema_loop(times, values, tau, nan_mode, i, prev, prev_time, out) ==
    IF i > Len(values) THEN out
    ELSE IF values[i].nan
    THEN \* reset forgets the state, hold repeats it, skip leaves all as it is
         ema_loop(times, values, tau, nan_mode, i + 1,
                  IF nan_mode = "reset" THEN FNaN ELSE prev,
                  prev_time,
                  IF nan_mode = "hold" /\ ~prev.nan THEN [out EXCEPT ![i] = prev] ELSE out)
    ELSE LET \* dt = (times[i] - prev_time).total_seconds(), clamped at 0
             dt == IF prev_time.none \/ times[i] - prev_time.t < 0 THEN 0
                   ELSE times[i] - prev_time.t
             \* 1 - alpha
             decay == exp_decay(dt, tau)
             smoothed == IF prev_time.none \/ prev.nan THEN values[i]
                         ELSE FracAdd(FracMul(FracSub(Frac(1, 1), decay), values[i]),
                                      FracMul(decay, prev))
         IN  ema_loop(times, values, tau, nan_mode, i + 1, smoothed, At(times[i]),
                      [out EXCEPT ![i] = smoothed])

\* ema_time_aware(series, tau, nan_mode) for a tau that is None or a number
ema_time_aware(series, tau, nan_mode) ==
    IF tau.none \/ tau.half_life <= 0 THEN series
    ELSE [index |-> series.index,
          values |-> ema_loop(series.index, series.values, tau, nan_mode, 1, FNaN, NoTime,
                              [i \in 1..Len(series.values) |-> FNaN])]


(***************************************************************************)
(* AQI summary (app/analysis/aqi.py, aqi_summary).  The series has a       *)
(* DatetimeIndex in seconds and fractions as values.  The dict returned is *)
(* the record [max, mean, time]: time[name] is the entry "time_" + name.   *)
(***************************************************************************)
\* float(aqi_series.max()): NaN values are skipped, NaN without a value
series_max(values) ==
    LET nums == {i \in 1..Len(values) : ~values[i].nan}
    IN  IF nums = {} THEN FNaN
        ELSE values[CHOOSE i \in nums : \A j \in nums : FracLe(values[j], values[i])]

\* float(aqi_series.mean())
series_mean(values) ==
    LET nums == SelectSeq(values, LAMBDA x : ~x.nan)
    IN  IF nums = <<>> THEN FNaN ELSE FracMul(FracSum(nums), Ratio(1, Len(nums)))

\* deltas[mask].sum() for the band cat
seconds_in_band(times, values, cat) ==
    LET deltas == time_deltas(times)
    IN  SumSeq([i \in 1..Len(values) |->
                    IF /\ FracLe(Frac(cat.low, 1), values[i])
                       /\ FracLe(values[i], Frac(cat.high, 1))
                    THEN deltas[i] ELSE 0])

\* aqi_summary(aqi_series, categories): a band named like an earlier one
\* overwrites its entry
aqi_summary(times, values, categories) ==
    LET names == {categories[k].name : k \in 1..Len(categories)}
        last(name) == CHOOSE k \in 1..Len(categories) :
                        /\ categories[k].name = name
                        /\ \A j \in (k + 1)..Len(categories) : categories[j].name # name
    IN  [max |-> IF values = <<>> THEN "None" ELSE series_max(values),
         mean |-> IF values = <<>> THEN "None" ELSE series_mean(values),
         time |-> [name \in names |-> seconds_in_band(times, values, categories[last(name)])]]

(***************************************************************************)
(* The packs and series the AQI checks range over.  A pack's table has one *)
(* or two segments on the concentration grid 0..AqiMaxConc, in either list *)
(* order; a segment has conc_low < conc_high and idx_low <= idx_high, two  *)
(* segments do not overlap except in a shared endpoint, and the index      *)
(* ranges ascend with the concentration ranges, as in every shipped pack.  *)
(***************************************************************************)
AqiMaxConc == 3

AqiIdxValues == {0, 1, 2}

AqiRows ==
    {[conc_low |-> cl, conc_high |-> ch, idx_low |-> il, idx_high |-> ih] :
        cl \in 0..AqiMaxConc, ch \in 0..AqiMaxConc, il \in AqiIdxValues, ih \in AqiIdxValues}

AqiSegments == {r \in AqiRows : r.conc_low < r.conc_high /\ r.idx_low <= r.idx_high}

Below(lo, hi) == lo.conc_high <= hi.conc_low /\ lo.idx_high <= hi.idx_low

AqiTables ==
    {<<r>> : r \in AqiSegments}
    \cup {t \in AqiSegments \X AqiSegments : Below(t[1], t[2]) \/ Below(t[2], t[1])}

\* the rounding entry of a pollutant: absent, or a mode
AqiModes == {"", "round", "floor", "none"}

AqiKeySets == {{"pm25"}, {"pm2_5", "pm10"}}

AqiTruncSteps == {0, 2}

AqiCells == {NaN} \cup {Num(c) : c \in 0..(AqiMaxConc + 1)}

Band(low, high, name) == [low |-> low, high |-> high, name |-> name]

\* the categories of a pack: none, two bands sharing the endpoint 1 in
\* either list order, and two bands with values between them
AqiCategoryLists ==
    {<<>>,
     <<Band(0, 1, "Good"), Band(1, 2, "Moderate")>>,
     <<Band(1, 2, "Moderate"), Band(0, 1, "Good")>>,
     <<Band(0, 0, "Good"), Band(2, 2, "Unhealthy")>>}

AqiPacks ==
    {[breakpoints |-> [k \in keys |-> tbl],
      rounding |-> IF mode = "" THEN <<>> ELSE [k \in keys |-> mode],
      categories |-> cats,
      concentration_truncation |-> IF step = 0 THEN <<>> ELSE [k \in keys |-> step],
      extrapolate_upper |-> ex] :
        keys \in AqiKeySets, tbl \in AqiTables, mode \in AqiModes,
        cats \in AqiCategoryLists, step \in AqiTruncSteps, ex \in BOOLEAN}

AqiInit ==
    /\ aqi_pc = "input"
    /\ aqi_pack \in AqiPacks
    /\ \E c \in AqiCells, which \in {"pm25", "pm10", "both"} :
        /\ aqi_pm25 = IF which = "pm10" THEN NoSeries ELSE Series(<<c>>)
        /\ aqi_pm10 = IF which = "pm25" THEN NoSeries ELSE Series(<<c>>)
    /\ aqi_df = compute_aqi(NoSeries, NoSeries, aqi_pack)

AqiIdle ==
    /\ aqi_pc = "idle"
    /\ aqi_pack = <<>>
    /\ aqi_pm25 = NoSeries
    /\ aqi_pm10 = NoSeries
    /\ aqi_df = <<>>

\* one call of compute_aqi(pm25, pm10, pack)
ComputeAqi ==
    /\ aqi_pc = "input"
    /\ aqi_df' = compute_aqi(aqi_pm25, aqi_pm10, aqi_pack)
    /\ aqi_pc' = "done"
    /\ UNCHANGED <<aqi_pack, aqi_pm25, aqi_pm10>>

(***************************************************************************)
(* The tables and configurations the mask checks range over: one data      *)
(* column (the engine treats each column on its own) of 1..MaskMaxRows     *)
(* cells, the cells taken from values on both sides of every rule.         *)
(***************************************************************************)
MaskMaxRows == 2

MaskColumns ==
    {"flags", "pm2_5", "pn10_0", "voc", "nox", "co2", "temp_c", "rh", "pressure",
     "co2_uncomp", "extra"}

MaskCells == {NaN} \cup {Num(x) : x \in {-41, -1, 0, 100, 400, 20001}}

\* plausible_ranges: empty, or the range [0, 100] configured for one column
MaskRangeConfigs == {<<>>} \cup {[c \in {col} |-> <<0, 100>>] : col \in MaskColumns}

MaskConfigs ==
    {[DefaultProcessingConfig EXCEPT !.voc_nox_zero_mode = z, !.plausible_ranges = pr] :
        z \in {"mask_inactive", "keep_raw"}, pr \in MaskRangeConfigs}

Timestamps(n) == [i \in 1..n |-> 60 * (i - 1)]

MaskTables ==
    UNION {{[timestamp |-> Timestamps(n), cols |-> [c \in {col} |-> cells]] :
                col \in MaskColumns, cells \in [1..n -> MaskCells]} : n \in 1..MaskMaxRows}

NoMaskResult == [masks |-> <<>>, clean |-> <<>>, reasons |-> <<>>]

MaskInit ==
    /\ mask_pc = "input"
    /\ mask_input \in MaskTables
    /\ mask_raw = mask_input
    /\ mask_cfg \in MaskConfigs
    /\ mask_first = NoMaskResult
    /\ mask_second = NoMaskResult

MaskIdle ==
    /\ mask_pc = "idle"
    /\ mask_input = <<>>
    /\ mask_raw = <<>>
    /\ mask_cfg = <<>>
    /\ mask_first = NoMaskResult
    /\ mask_second = NoMaskResult

\* one call of apply_validity_masks(raw, cfg); the first two calls are kept
ApplyMasks ==
    /\ mask_pc \in {"input", "once"}
    /\ LET result == apply_validity_masks(mask_raw, mask_cfg)
       IN /\ mask_first' = IF mask_pc = "input" THEN result ELSE mask_first
          /\ mask_second' = IF mask_pc = "once" THEN result ELSE mask_second
    /\ mask_raw' = table_after_masks(mask_raw, mask_cfg)
    /\ mask_pc' = IF mask_pc = "input" THEN "once" ELSE "twice"
    /\ UNCHANGED <<mask_input, mask_cfg>>

(***************************************************************************)
(* The series the gap checks range over: GapSamples(d, n, k, m) has n      *)
(* samples spaced d seconds apart, except that the delta before sample k   *)
(* is m * d (m = 1: a uniform series).                                     *)
(***************************************************************************)
GapMaxSamples == 7

GapMaxDelta == 3

GapSamples(d, n, k, m) ==
    [i \in 1..n |-> Num(d * ((i - 1) + (IF i >= k THEN m - 1 ELSE 0)))]

GapInit ==
    /\ gap_pc = "input"
    /\ \E d \in 1..GapMaxDelta, n \in 2..GapMaxSamples, m \in {1, 2, 3, 10} :
        \E k \in 2..n : gap_times = GapSamples(d, n, k, m)
    /\ gap_factor \in {[n |-> 2, d |-> 1], [n |-> 5, d |-> 2]}
    /\ gap_result = <<>>

GapIdle ==
    /\ gap_pc = "idle"
    /\ gap_times = <<>>
    /\ gap_factor = <<>>
    /\ gap_result = <<>>

\* one call of detect_gaps(times, factor)
DetectGaps ==
    /\ gap_pc = "input"
    /\ gap_result' = detect_gaps(gap_times, gap_factor)
    /\ gap_pc' = "done"
    /\ UNCHANGED <<gap_times, gap_factor>>

(***************************************************************************)
(* The files and configurations the importer checks range over.            *)
(***************************************************************************)
CsvMaxRows == 3

CsvHeaderLists ==
    {<<"Timestamp", "PM2.5">>,
     <<"ts", "co2_ppm", "Battery">>,
     <<"CO2", "PM2.5">>,
     <<"timestamp", "Timestamp", "CO2">>,
     <<"Timestamp", "FLAGS", "PM2.5">>}

\* the first timestamp of a file, in thousands: epoch seconds, epoch milliseconds
CsvEpochs == {1700000, 1700000000}

NotANumber == [num |-> FALSE, v |-> 0]

Field(x) == [num |-> TRUE, v |-> x]

\* the rows of a file that starts at epoch
CsvRows(epoch) ==
    {[first |-> Field(epoch), rest |-> Field(400)],
     [first |-> Field(epoch), rest |-> Field(-1)],
     [first |-> Field(epoch + 1), rest |-> Field(400)],
     [first |-> Field(epoch + 1), rest |-> Field(500)],
     [first |-> Field(epoch + 2), rest |-> Field(400)],
     [first |-> NotANumber, rest |-> Field(400)]}

CsvFiles ==
    {[headers |-> h, rows |-> r] :
        h \in CsvHeaderLists,
        r \in UNION {[1..n -> CsvRows(e)] : n \in 0..CsvMaxRows, e \in CsvEpochs}}

\* the configurations: each dedup policy with the flat-line diagnostics on,
\* on with automask, and off, without resampling; and resampling to each
\* interval with the diagnostics on, with and without automask
ImportConfigs ==
    {[DefaultProcessingConfig EXCEPT !.dedup_keep = keep,
                                     !.flatline_diag_enabled = fl[1],
                                     !.flatline_automask = fl[2]] :
        keep \in {"first", "last"},
        fl \in {<<TRUE, FALSE>>, <<TRUE, TRUE>>, <<FALSE, FALSE>>}}
    \cup
    {[DefaultProcessingConfig EXCEPT !.resample_interval = interval,
                                     !.flatline_automask = auto] :
        interval \in {"10min", "1000s"}, auto \in BOOLEAN}

\* every row of the file has a number in its first field
AllTimestamped(file) == \A i \in 1..Len(file.rows) : file.rows[i].first.num

\* a file with a row without a timestamp is loaded without resampling
ImpInit ==
    /\ imp_pc = "input"
    /\ imp_file \in CsvFiles
    /\ imp_config \in ImportConfigs
    /\ imp_config.resample_interval # "None" => AllTimestamped(imp_file)
    /\ imp_result = NoResult

ImpIdle ==
    /\ imp_pc = "idle"
    /\ imp_file = <<>>
    /\ imp_config = <<>>
    /\ imp_result = <<>>

\* one call of DatasetImporter.load_csv(path, config)
LoadCsv ==
    /\ imp_pc = "input"
    /\ imp_result' \in load_csv(imp_file, imp_config)
    /\ imp_pc' = "done"
    /\ UNCHANGED <<imp_file, imp_config>>

(***************************************************************************)
(* Session (app/ui/main_window.py): the dataset list and its selection.    *)
(***************************************************************************)
SessMaxDatasets == 2

\* the files a session imports.  Two load: two equal samples 1000 s apart
\* (a flat line) with a flags column, and one timestamp twice.  The others
\* fail: no rows, no numeric timestamp, no timestamp header, one column
\* name twice.
SessionFiles ==
    {f \in CsvFiles :
        LET e == 1700000
            flat == <<[first |-> Field(e), rest |-> Field(400)],
                      [first |-> Field(e + 1), rest |-> Field(400)]>>
            twice == <<[first |-> Field(e), rest |-> Field(400)],
                       [first |-> Field(e), rest |-> Field(-1)]>>
            unnumbered == <<[first |-> NotANumber, rest |-> Field(400)],
                            [first |-> NotANumber, rest |-> Field(400)]>>
        IN  \/ f.rows \in {<<>>, unnumbered}
            \/ f.rows = flat /\ f.headers \in {<<"Timestamp", "FLAGS", "PM2.5">>,
                                                <<"CO2", "PM2.5">>}
            \/ f.rows = twice /\ f.headers \in {<<"Timestamp", "PM2.5">>,
                                                 <<"timestamp", "Timestamp", "CO2">>}}

\* the processing config a session starts with: ProcessingConfig(), or that
\* of a project with the other dedup policy
SessionStartConfigs ==
    {DefaultProcessingConfig, [DefaultProcessingConfig EXCEPT !.dedup_keep = "last"]}

SessInit ==
    /\ sess_datasets = <<>>
    /\ sess_current = 0
    /\ sess_config \in SessionStartConfigs
    /\ sess_error = ""

SessIdle ==
    /\ sess_datasets = <<>>
    /\ sess_current = 0
    /\ sess_config = <<>>
    /\ sess_error = ""

\* the settings ImportCleanTab._apply reads from its controls: the default
\* ones, zero VOC/NOx kept, the flat-line diagnostics with automask and off,
\* and resampling without and with automask
SessionSettings ==
    {[voc_nox_zero_mode |-> s[1], flatline_diag_enabled |-> s[2], flatline_automask |-> s[3],
      resample_interval |-> s[4], use_resampled |-> s[5]] :
        s \in {<<"mask_inactive", TRUE, FALSE, "None", FALSE>>,
               <<"keep_raw", TRUE, FALSE, "None", FALSE>>,
               <<"mask_inactive", TRUE, TRUE, "None", FALSE>>,
               <<"mask_inactive", FALSE, TRUE, "None", FALSE>>,
               <<"mask_inactive", TRUE, FALSE, "10min", TRUE>>,
               <<"mask_inactive", TRUE, TRUE, "10min", FALSE>>}}

\* ImportCleanTab._apply: the processing config with the settings written
\* into it
apply_settings(config, settings) ==
    [config EXCEPT !.voc_nox_zero_mode = settings.voc_nox_zero_mode,
                   !.flatline_diag_enabled = settings.flatline_diag_enabled,
                   !.flatline_automask = settings.flatline_automask,
                   !.resample_interval = settings.resample_interval,
                   !.use_resampled = settings.use_resampled]

\* the processing configs of a session: those it starts with and those the
\* settings turn them into
SessionConfigs ==
    SessionStartConfigs \cup {apply_settings(config, settings) :
                                config \in SessionStartConfigs, settings \in SessionSettings}

\* self.importer.load_csv(path, self.state.processing_config), tabulated
\* over the files and configurations of a session
session_load_csv ==
    [file \in SessionFiles, config \in SessionConfigs |-> load_csv(file, config)]

\* _import_csv clearing the selection when load_csv raises
ImportCsvFile_clears_selection(file) ==
    \E outcome \in session_load_csv[file, sess_config] :
        IF outcome.error # ""
        THEN /\ sess_error' = outcome.error
             /\ sess_current' = 0
             /\ UNCHANGED <<sess_datasets, sess_config>>
        ELSE /\ Len(sess_datasets) < SessMaxDatasets
             /\ sess_datasets' = Append(sess_datasets, outcome.dataset)
             /\ sess_current' = Len(sess_datasets) + 1
             /\ UNCHANGED <<sess_config, sess_error>>

\* MainWindow._import_csv with the file the dialog returned
ImportCsvFile(file) ==
    \E outcome \in session_load_csv[file, sess_config] :
        IF outcome.error # ""
        THEN /\ sess_error' = outcome.error
             /\ UNCHANGED <<sess_datasets, sess_current, sess_config>>
        ELSE /\ Len(sess_datasets) < SessMaxDatasets
             /\ sess_datasets' = Append(sess_datasets, outcome.dataset)
             /\ sess_current' = Len(sess_datasets) + 1
             /\ UNCHANGED <<sess_config, sess_error>>

ImportCsv == \E file \in SessionFiles : ImportCsvFile(file)

\* ImportCleanTab._apply followed by the handler of config_changed it emits,
\* MainWindow._on_processing_config_changed, which returns at once when no
\* dataset is current
ApplyConfig ==
    /\ \E settings \in SessionSettings :
        /\ sess_config' = apply_settings(sess_config, settings)
        /\ IF sess_current \in 1..Len(sess_datasets)
           THEN sess_datasets' = [sess_datasets EXCEPT
                                    ![sess_current] = reapply_config(@, sess_config')]
           ELSE UNCHANGED sess_datasets
    /\ UNCHANGED <<sess_current, sess_error>>

\* the user picks a row of dataset_list
SelectDataset ==
    /\ \E idx \in 1..Len(sess_datasets) :
        /\ idx # sess_current
        /\ sess_current' = idx
    /\ UNCHANGED <<sess_datasets, sess_config, sess_error>>

(***************************************************************************)
(* The series the decay-fit checks range over.                             *)
(***************************************************************************)
FitMaxSamples == 4

FitBaseline == 400

\* n sample times: every 5 minutes, or with spacing growing by 5 minutes
FitTimes(n, grid) ==
    [i \in 1..n |-> IF grid = "uniform" THEN 5 * (i - 1) ELSE 5 * ((i * (i - 1)) \div 2)]

\* missing, below baseline, at baseline, and excesses 1, 2 and 8
FitCells == {NaN} \cup {Num(FitBaseline + x) : x \in {-1, 0, 1, 2, 8}}

FitMethods == {"regression", "two_point", "time_constant_63"}

FitInit ==
    /\ fit_pc = "input"
    /\ \E n \in 0..FitMaxSamples :
        /\ fit_times \in {FitTimes(n, grid) : grid \in {"uniform", "growing"}}
        /\ fit_co2 \in [1..n -> FitCells]
    /\ fit_baseline = FitBaseline
    /\ fit_method \in FitMethods
    /\ fit_result = <<>>

FitIdle ==
    /\ fit_pc = "idle"
    /\ fit_times = <<>>
    /\ fit_co2 = <<>>
    /\ fit_baseline = 0
    /\ fit_method = ""
    /\ fit_result = <<>>

\* one call of fit_co2_decay(times, co2, baseline, method)
FitDecay ==
    /\ fit_pc = "input"
    /\ fit_result' = fit_co2_decay(fit_times, fit_co2, fit_baseline, fit_method)
    /\ fit_pc' = "done"
    /\ UNCHANGED <<fit_times, fit_co2, fit_baseline, fit_method>>

(***************************************************************************)
(* The logs the event-detection checks range over.                         *)
(***************************************************************************)
\* the samples of one decay, peak included, at most
DetMaxDecayLen == 4

\* the baseline samples between two decays, and after the second, at most
DetMaxQuiet == 2

\* the samples of a free log, at most
DetMaxFree == 4

\* an exponential decay sampled len times from its peak: each sample is
\* half the one before
HalvingDecay(peak, len) == [j \in 1..len |-> peak \div (2 ^ (j - 1))]

Quiet(len) == [j \in 1..len |-> 0]

\* the excess of a log of two decays: the first starts the log, quiet
\* samples at baseline separate them, tail quiet samples end the log
TwoDecayExcess(d) ==
    HalvingDecay(d.peak1, d.len1) \o Quiet(d.quiet) \o HalvingDecay(d.peak2, d.len2) \o Quiet(d.tail)

TwoDecayShapes ==
    [peak1 : {32, 64}, len1 : 3..DetMaxDecayLen, quiet : 1..DetMaxQuiet,
     peak2 : {32, 64}, len2 : 3..DetMaxDecayLen, tail : 0..DetMaxQuiet, step : {5, 10}]

\* the log of shape d: times every d.step minutes, CO2 = baseline + excess
TwoDecayTimes(d) == [i \in 1..Len(TwoDecayExcess(d)) |-> Num(d.step * (i - 1))]

TwoDecayCo2(d) == [i \in 1..Len(TwoDecayExcess(d)) |-> Num(FitBaseline + TwoDecayExcess(d)[i])]

\* the log of two decays of the longest kind with a bump of two samples
\* between them, too short to be an event, every step minutes
BumpExcess(bump) ==
    HalvingDecay(64, DetMaxDecayLen) \o <<0, bump, bump, 0, 0>> \o HalvingDecay(64, DetMaxDecayLen)

\* a decay that stalls at half its peak, above 1/e of it, before the next rise
StalledExcess == <<64, 32, 32, 64, 64>>

\* a decay with one low reading between two high ones: the smoothed excess
\* peaks at the low reading
SpikedExcess == <<64, 16, 64, 8, 4>>

ShapedExcesses == {BumpExcess(16), BumpExcess(32), StalledExcess, SpikedExcess}

ShapedTimes(excess, step) == [i \in 1..Len(excess) |-> Num(step * (i - 1))]

ShapedCo2(excess) == [i \in 1..Len(excess) |-> Num(FitBaseline + excess[i])]

\* free logs: every 5 minutes, in file order or reversed, with missing
\* samples and excesses 0, 4 and 16
FreeCells == {NaN} \cup {Num(FitBaseline + x) : x \in {0, 4, 16}}

FreeTimes(n, reversed) == [i \in 1..n |-> Num(5 * (IF reversed THEN n - i ELSE i - 1))]

DetArgs ==
    [baseline : {FitBaseline}, min_drop : {8, 16}, min_minutes : {5, 10}, min_points : {3, 4},
     min_gap_minutes : {0, 5}, method : {"time_constant_63", "regression"}]

DetInit ==
    /\ det_pc = "input"
    /\ \/ \E d \in TwoDecayShapes :
            /\ det_times = TwoDecayTimes(d)
            /\ det_co2 = TwoDecayCo2(d)
            /\ det_arg \in DetArgs
       \/ \E excess \in ShapedExcesses, step \in {5, 10} :
            /\ det_times = ShapedTimes(excess, step)
            /\ det_co2 = ShapedCo2(excess)
            /\ det_arg \in DetArgs \cup {[a EXCEPT !.min_gap_minutes = 20] : a \in DetArgs}
       \/ \E n \in 3..DetMaxFree, reversed \in BOOLEAN :
            /\ det_times = FreeTimes(n, reversed)
            /\ det_co2 \in [1..n -> FreeCells]
            /\ det_arg \in {a \in DetArgs : a.min_drop = 8 /\ a.min_minutes = 5}
    /\ det_events = <<>>

DetIdle ==
    /\ det_pc = "idle"
    /\ det_times = <<>>
    /\ det_co2 = <<>>
    /\ det_arg = <<>>
    /\ det_events = <<>>

\* one call of detect_co2_decay_events
DetectDecays ==
    /\ det_pc = "input"
    /\ det_events' = detect_co2_decay_events(det_times, det_co2, det_arg)
    /\ det_pc' = "done"
    /\ UNCHANGED <<det_times, det_co2, det_arg>>

(***************************************************************************)
(* The events the ACH summary checks range over.                           *)
(***************************************************************************)
\* the events of a call, at most
AchMaxEvents == 3

\* a DecayEvent, by the two fields summarize_ach reads
AchEvents ==
    [ach : {FiniteAch(1), FiniteAch(2), FiniteAch(5), NanAch, InfAch},
     r2 : {NaN, Num(85), Num(90)}]

AchInit ==
    /\ ach_pc = "input"
    /\ \E n \in 0..AchMaxEvents : ach_events \in [1..n -> AchEvents]
    /\ ach_min_r2 \in {90, 85}
    /\ ach_stats = EmptyStats

AchIdle ==
    /\ ach_pc = "idle"
    /\ ach_events = <<>>
    /\ ach_min_r2 = 0
    /\ ach_stats = EmptyStats

\* one call of summarize_ach
SummarizeAch ==
    /\ ach_pc = "input"
    /\ ach_stats' = summarize_ach(ach_events, ach_min_r2)
    /\ ach_pc' = "done"
    /\ UNCHANGED <<ach_events, ach_min_r2>>


(***************************************************************************)
(* The series the exposure checks range over: up to ExpMaxSamples samples  *)
(* at times 0..ExpMaxTime seconds, in any order.                           *)
(***************************************************************************)
ExpMaxSamples == 3

ExpMaxTime == 3

ExpCells == {NaN, Num(0), Num(2), Num(6)}

ExpInit ==
    /\ exp_pc = "input"
    /\ \E n \in 0..ExpMaxSamples :
        /\ exp_times \in [1..n -> 0..ExpMaxTime]
        /\ exp_values \in [1..n -> ExpCells]
    /\ exp_threshold \in {0, 3, 4}
    /\ exp_stats = <<>>

ExpIdle ==
    /\ exp_pc = "idle"
    /\ exp_times = <<>>
    /\ exp_values = <<>>
    /\ exp_threshold = 0
    /\ exp_stats = <<>>

\* one call of exposure_stats
ExposureStats ==
    /\ exp_pc = "input"
    /\ exp_stats' = exposure_stats(exp_times, exp_values, exp_threshold)
    /\ exp_pc' = "done"
    /\ UNCHANGED <<exp_times, exp_values, exp_threshold>>


(***************************************************************************)
(* The series the smoothing checks range over.                             *)
(***************************************************************************)
EmaMaxSamples == 4

\* index values in seconds, in any order
EmaTimes == {0, 1, 3}

EmaCells == {FNaN, Frac(0, 1), Frac(8, 1)}

\* no time constant, a disabled one, and one with a half-life of 1 second
EmaTaus == {NoTau, Tau(0), Tau(1)}

EmaInit ==
    /\ ema_pc = "input"
    /\ \E n \in 0..EmaMaxSamples :
        /\ ema_times \in [1..n -> EmaTimes]
        /\ ema_values \in [1..n -> EmaCells]
    /\ ema_tau \in EmaTaus
    /\ ema_nan_mode \in {"skip", "reset", "hold"}
    /\ ema_out = <<>>

EmaIdle ==
    /\ ema_pc = "idle"
    /\ ema_times = <<>>
    /\ ema_values = <<>>
    /\ ema_tau = NoTau
    /\ ema_nan_mode = ""
    /\ ema_out = <<>>

\* one call of ema_time_aware(series, tau, nan_mode)
EmaTimeAware ==
    /\ ema_pc = "input"
    /\ ema_out' = ema_time_aware([index |-> ema_times, values |-> ema_values],
                                 ema_tau, ema_nan_mode)
    /\ ema_pc' = "done"
    /\ UNCHANGED <<ema_times, ema_values, ema_tau, ema_nan_mode>>


(***************************************************************************)
(* The tables the flat-line checks range over.                             *)
(***************************************************************************)
FlatMaxRows == 5

\* the index of a table of n rows: a sample every step seconds, the last
\* row without a timestamp where open is set (NaT sorts last, and
\* drop_duplicates leaves one such row at most)
FlatIndex(n, step, open) ==
    [i \in 1..n |-> IF open /\ i = n THEN NaT ELSE Num(step * (i - 1))]

FlatCells == {NaN, Num(1), Num(2)}

\* FlatlineConfig(), and one with shorter runs and a longer time
FlatConfigs ==
    {FlatlineConfig, [min_samples |-> 3, min_minutes |-> 20, multi_channel_threshold |-> 3]}

\* tables with a pm2_5 column, alone or beside a co2 column holding the
\* same cells in reverse
FlatInit ==
    /\ flat_pc = "input"
    /\ \E n \in 0..FlatMaxRows, step \in {300, 600}, open \in BOOLEAN, both \in BOOLEAN :
        \E cells \in [1..n -> FlatCells] :
            flat_df = [timestamp |-> FlatIndex(n, step, open),
                       cols |-> IF both
                                THEN [col \in {"pm2_5", "co2"} |->
                                        IF col = "pm2_5" THEN cells
                                        ELSE [i \in 1..n |-> cells[n + 1 - i]]]
                                ELSE [col \in {"pm2_5"} |-> cells]]
    /\ flat_cfg \in FlatConfigs
    /\ flat_flags = <<>>

FlatIdle ==
    /\ flat_pc = "idle"
    /\ flat_df = <<>>
    /\ flat_cfg = <<>>
    /\ flat_flags = <<>>

\* one call of flag_flatlines(df, cfg)
FlagFlatlines ==
    /\ flat_pc = "input"
    /\ flat_flags' = flag_flatlines(flat_df, flat_cfg)
    /\ flat_pc' = "done"
    /\ UNCHANGED <<flat_df, flat_cfg>>


(***************************************************************************)
(* The series the AQI summary checks range over: up to SumMaxSamples       *)
(* samples one or two minutes apart.                                       *)
(***************************************************************************)
SumMaxSamples == 3

RECURSIVE SumTimes(_)
SumTimes(n) ==
    IF n = 0 THEN {<<>>}
    ELSE IF n = 1 THEN {<<0>>}
    ELSE {Append(t, t[n - 1] + step) : t \in SumTimes(n - 1), step \in {60, 120}}

SumValues == {FNaN, Frac(0, 1), Frac(1, 1), Frac(2, 1), Frac(3, 2)}

\* the category lists of the packs, and one with a name used twice
SumCategoryLists ==
    AqiCategoryLists \cup {<<Band(0, 0, "Good"), Band(1, 1, "Good")>>}

SumInit ==
    /\ sum_pc = "input"
    /\ \E n \in 0..SumMaxSamples :
        /\ sum_times \in SumTimes(n)
        /\ sum_values \in [1..n -> SumValues]
    /\ sum_categories \in SumCategoryLists
    /\ sum_result = <<>>

SumIdle ==
    /\ sum_pc = "idle"
    /\ sum_times = <<>>
    /\ sum_values = <<>>
    /\ sum_categories = <<>>
    /\ sum_result = <<>>

\* one call of aqi_summary(aqi_series, categories)
AqiSummary ==
    /\ sum_pc = "input"
    /\ sum_result' = aqi_summary(sum_times, sum_values, sum_categories)
    /\ sum_pc' = "done"
    /\ UNCHANGED <<sum_times, sum_values, sum_categories>>


(***************************************************************************)
(* Specifications: one per component.  Each starts the component from its  *)
(* inputs and leaves the other components idle.                            *)
(***************************************************************************)
NextAqi ==
    /\ ComputeAqi
    /\ UNCHANGED <<mask_vars, gap_vars, imp_vars, sess_vars, fit_vars, det_vars,
                   ach_vars, exp_vars, ema_vars, flat_vars, sum_vars>>

InitAqi ==
    AqiInit /\ MaskIdle /\ GapIdle /\ ImpIdle /\ SessIdle /\ FitIdle /\ DetIdle
    /\ AchIdle /\ ExpIdle /\ EmaIdle /\ FlatIdle /\ SumIdle

SpecAqi == InitAqi /\ [][NextAqi]_vars

NextMask ==
    /\ ApplyMasks
    /\ UNCHANGED <<aqi_vars, gap_vars, imp_vars, sess_vars, fit_vars, det_vars, ach_vars,
                   exp_vars, ema_vars, flat_vars, sum_vars>>

InitMask ==
    AqiIdle /\ MaskInit /\ GapIdle /\ ImpIdle /\ SessIdle /\ FitIdle /\ DetIdle
    /\ AchIdle /\ ExpIdle /\ EmaIdle /\ FlatIdle /\ SumIdle

SpecMask == InitMask /\ [][NextMask]_vars

NextGaps ==
    /\ DetectGaps
    /\ UNCHANGED <<aqi_vars, mask_vars, imp_vars, sess_vars, fit_vars, det_vars,
                   ach_vars, exp_vars, ema_vars, flat_vars, sum_vars>>

InitGaps ==
    AqiIdle /\ MaskIdle /\ GapInit /\ ImpIdle /\ SessIdle /\ FitIdle /\ DetIdle
    /\ AchIdle /\ ExpIdle /\ EmaIdle /\ FlatIdle /\ SumIdle

SpecGaps == InitGaps /\ [][NextGaps]_vars

NextImport ==
    /\ LoadCsv
    /\ UNCHANGED <<aqi_vars, mask_vars, gap_vars, sess_vars, fit_vars, det_vars,
                   ach_vars, exp_vars, ema_vars, flat_vars, sum_vars>>

InitImport ==
    AqiIdle /\ MaskIdle /\ GapIdle /\ ImpInit /\ SessIdle /\ FitIdle /\ DetIdle
    /\ AchIdle /\ ExpIdle /\ EmaIdle /\ FlatIdle /\ SumIdle

SpecImport == InitImport /\ [][NextImport]_vars

NextSession ==
    \/ /\ ImportCsv
       /\ UNCHANGED <<aqi_vars, mask_vars, gap_vars, imp_vars, fit_vars, det_vars,
                      ach_vars, exp_vars, ema_vars, flat_vars, sum_vars>>
    \/ /\ SelectDataset
       /\ UNCHANGED <<aqi_vars, mask_vars, gap_vars, imp_vars, fit_vars, det_vars,
                      ach_vars, exp_vars, ema_vars, flat_vars, sum_vars>>
    \/ /\ ApplyConfig
       /\ UNCHANGED <<aqi_vars, mask_vars, gap_vars, imp_vars, fit_vars, det_vars,
                      ach_vars, exp_vars, ema_vars, flat_vars, sum_vars>>

InitSession ==
    AqiIdle /\ MaskIdle /\ GapIdle /\ ImpIdle /\ SessInit /\ FitIdle /\ DetIdle
    /\ AchIdle /\ ExpIdle /\ EmaIdle /\ FlatIdle /\ SumIdle

SpecSession == InitSession /\ [][NextSession]_vars

NextFit ==
    /\ FitDecay
    /\ UNCHANGED <<aqi_vars, mask_vars, gap_vars, imp_vars, sess_vars, det_vars,
                   ach_vars, exp_vars, ema_vars, flat_vars, sum_vars>>

InitFit ==
    AqiIdle /\ MaskIdle /\ GapIdle /\ ImpIdle /\ SessIdle /\ FitInit /\ DetIdle
    /\ AchIdle /\ ExpIdle /\ EmaIdle /\ FlatIdle /\ SumIdle

SpecFit == InitFit /\ [][NextFit]_vars

NextDetect ==
    /\ DetectDecays
    /\ UNCHANGED <<aqi_vars, mask_vars, gap_vars, imp_vars, sess_vars, fit_vars,
                   ach_vars, exp_vars, ema_vars, flat_vars, sum_vars>>

InitDetect ==
    AqiIdle /\ MaskIdle /\ GapIdle /\ ImpIdle /\ SessIdle /\ FitIdle /\ DetInit
    /\ AchIdle /\ ExpIdle /\ EmaIdle /\ FlatIdle /\ SumIdle

SpecDetect == InitDetect /\ [][NextDetect]_vars

NextAch ==
    /\ SummarizeAch
    /\ UNCHANGED <<aqi_vars, mask_vars, gap_vars, imp_vars, sess_vars, fit_vars,
                   det_vars, exp_vars, ema_vars, flat_vars, sum_vars>>

InitAch ==
    AqiIdle /\ MaskIdle /\ GapIdle /\ ImpIdle /\ SessIdle /\ FitIdle /\ DetIdle
    /\ AchInit /\ ExpIdle /\ EmaIdle /\ FlatIdle /\ SumIdle

SpecAch == InitAch /\ [][NextAch]_vars

NextExposure ==
    /\ ExposureStats
    /\ UNCHANGED <<aqi_vars, mask_vars, gap_vars, imp_vars, sess_vars, fit_vars,
                   det_vars, ach_vars, ema_vars, flat_vars, sum_vars>>

InitExposure ==
    AqiIdle /\ MaskIdle /\ GapIdle /\ ImpIdle /\ SessIdle /\ FitIdle /\ DetIdle
    /\ AchIdle /\ ExpInit /\ EmaIdle /\ FlatIdle /\ SumIdle

SpecExposure == InitExposure /\ [][NextExposure]_vars

NextEma ==
    /\ EmaTimeAware
    /\ UNCHANGED <<aqi_vars, mask_vars, gap_vars, imp_vars, sess_vars, fit_vars,
                   det_vars, ach_vars, exp_vars, flat_vars, sum_vars>>

InitEma ==
    AqiIdle /\ MaskIdle /\ GapIdle /\ ImpIdle /\ SessIdle /\ FitIdle /\ DetIdle
    /\ AchIdle /\ ExpIdle /\ EmaInit /\ FlatIdle /\ SumIdle

SpecEma == InitEma /\ [][NextEma]_vars

NextFlat ==
    /\ FlagFlatlines
    /\ UNCHANGED <<aqi_vars, mask_vars, gap_vars, imp_vars, sess_vars, fit_vars,
                   det_vars, ach_vars, exp_vars, ema_vars, sum_vars>>

InitFlat ==
    AqiIdle /\ MaskIdle /\ GapIdle /\ ImpIdle /\ SessIdle /\ FitIdle /\ DetIdle
    /\ AchIdle /\ ExpIdle /\ EmaIdle /\ FlatInit /\ SumIdle

SpecFlat == InitFlat /\ [][NextFlat]_vars

NextSummary ==
    /\ AqiSummary
    /\ UNCHANGED <<aqi_vars, mask_vars, gap_vars, imp_vars, sess_vars, fit_vars,
                   det_vars, ach_vars, exp_vars, ema_vars, flat_vars>>

InitSummary ==
    AqiIdle /\ MaskIdle /\ GapIdle /\ ImpIdle /\ SessIdle /\ FitIdle /\ DetIdle
    /\ AchIdle /\ ExpIdle /\ EmaIdle /\ FlatIdle /\ SumInit

SpecSummary == InitSummary /\ [][NextSummary]_vars

(***************************************************************************)
(* Claims about the AQI engine                                             *)
(***************************************************************************)
\* the sub-index columns of the returned frame, each with the concentrations
\* looked up (after truncation), the pollutant's breakpoint table and its
\* rounding mode
AqiColumns ==
    (IF "aqi_pm25" \in aqi_df.columns
     THEN {[sub |-> aqi_df.aqi_pm25, conc |-> pm25_lookup(aqi_pm25, aqi_pack),
            table |-> sorted_breakpoints(aqi_pack.breakpoints[pm25_key_of(aqi_pack)]),
            mode |-> rounding_get(aqi_pack.rounding,
                                  <<pm25_key_of(aqi_pack), "pm25", "pm2_5">>, "round")]}
     ELSE {})
    \cup
    (IF "aqi_pm10" \in aqi_df.columns
     THEN {[sub |-> aqi_df.aqi_pm10, conc |-> pm10_lookup(aqi_pm10, aqi_pack),
            table |-> sorted_breakpoints(aqi_pack.breakpoints["pm10"]),
            mode |-> IF "pm10" \in DOMAIN aqi_pack.rounding
                     THEN aqi_pack.rounding["pm10"] ELSE "round"]}
     ELSE {})

\* concentration cell c sits on the endpoint shared by segments k and k+1
OnSharedEndpoint(c, table, k) ==
    /\ k + 1 <= Len(table)
    /\ table[k].conc_high = table[k + 1].conc_low
    /\ ~c.nan
    /\ c.v = table[k].conc_high

\* C1: a concentration equal to the endpoint shared by two contiguous
\* segments maps to index_high of the lower segment.
C1_LowerSegmentWins ==
    aqi_pc = "done" =>
        \A col \in AqiColumns :
            \A i \in 1..Len(col.sub), k \in 1..Len(col.table) :
                OnSharedEndpoint(col.conc[i], col.table, k) =>
                    FracEq(col.sub[i], Frac(col.table[k].idx_high, 1))

MaxIndexHigh(table) ==
    CHOOSE m \in {table[k].idx_high : k \in 1..Len(table)} :
        \A k \in 1..Len(table) : table[k].idx_high <= m

\* C4: without extrapolate_upper every sub-index value is >= 0 and <= the
\* largest index_high of the pollutant's breakpoint table.
C4_SubIndexBounded ==
    (aqi_pc = "done" /\ ~aqi_pack.extrapolate_upper) =>
        \A col \in AqiColumns :
            \A i \in 1..Len(col.sub) :
                (~col.sub[i].nan) =>
                    /\ FracLe(Frac(0, 1), col.sub[i])
                    /\ FracLe(col.sub[i], Frac(MaxIndexHigh(col.table), 1))

\* a sub-index was computed, without extrapolation, from a concentration
\* strictly inside a rising segment (the interpolation and rounding acted)
C4_Witness ==
    /\ aqi_pc = "done"
    /\ ~aqi_pack.extrapolate_upper
    /\ \E col \in AqiColumns :
        \E i \in 1..Len(col.sub), k \in 1..Len(col.table) :
            /\ ~col.sub[i].nan
            /\ ~col.conc[i].nan
            /\ col.table[k].conc_low < col.conc[i].v
            /\ col.conc[i].v < col.table[k].conc_high
            /\ col.table[k].idx_low < col.table[k].idx_high

\* segment k of the table covers the concentration cell c
Covers(c, table, k, extrapolate_upper) ==
    /\ ~c.nan
    /\ c.v >= table[k].conc_low
    /\ c.v <= table[k].conc_high \/ (extrapolate_upper /\ k = Len(table))

\* the integer r is floor(x + 0.5) for the fraction x
IsHalfUpOf(r, x) ==
    /\ ~r.nan
    /\ r.d = 1
    /\ 2 * r.n * x.d <= 2 * x.n + x.d
    /\ 2 * x.n + x.d < 2 * (r.n + 1) * x.d

\* the fraction x is n + 0.5 for an integer n >= 0
IsHalfway(x, n) == n >= 0 /\ 2 * x.n = (2 * n + 1) * x.d

\* C13: with rounding mode "round" every sub-index is floor(x + 0.5) of
\* the raw sub-index x of a segment covering the concentration, so a raw
\* sub-index of n + 0.5 becomes n + 1.
C13_RoundHalfUp ==
    aqi_pc = "done" =>
        \A col \in AqiColumns :
            col.mode = "round" =>
                \A i \in 1..Len(col.sub) :
                    (~col.sub[i].nan) =>
                        \E k \in 1..Len(col.table) :
                            /\ Covers(col.conc[i], col.table, k, aqi_pack.extrapolate_upper)
                            /\ IsHalfUpOf(col.sub[i], segment_value(col.conc[i], col.table[k]))
                            /\ \A n \in 0..2 :
                                IsHalfway(segment_value(col.conc[i], col.table[k]), n) =>
                                    col.sub[i] = Frac(n + 1, 1)

\* mode "round" turned a raw sub-index of 0.5 into 1
C13_Witness ==
    /\ aqi_pc = "done"
    /\ \E col \in AqiColumns :
        /\ col.mode = "round"
        /\ Len(col.table) = 1
        /\ \E i \in 1..Len(col.sub) :
            /\ ~col.conc[i].nan
            /\ IsHalfway(segment_value(col.conc[i], col.table[1]), 0)
            /\ col.sub[i] = Frac(1, 1)

\* the bands of the list whose inclusive range [low, high] holds the value
BandsHolding(value, categories) ==
    {k \in 1..Len(categories) :
        /\ ~value.nan
        /\ categories[k].low * value.d <= value.n
        /\ value.n <= categories[k].high * value.d}

\* C14: when the pack defines category bands, each overall AQI value gets
\* the name of the first band in list order whose inclusive range holds
\* it; a value in several bands gets the earliest listed one.
C14_FirstBandWins ==
    (aqi_pc = "done" /\ "aqi_category" \in aqi_df.columns) =>
        \A i \in 1..Len(aqi_df.aqi_overall) :
            LET holding == BandsHolding(aqi_df.aqi_overall[i], aqi_pack.categories)
            IN  holding # {} =>
                    \E k \in holding :
                        /\ \A j \in holding : k <= j
                        /\ aqi_df.aqi_category[i] = aqi_pack.categories[k].name

MaskCalled == mask_pc \in {"once", "twice"}

OutsideRange(cell, range) == (~cell.nan) /\ (cell.v < range[1] \/ cell.v > range[2])

\* C5: for every column with a plausible range (a default, or a configured
\* range for any column, the configured one replacing the default) every
\* value outside [lo, hi] is marked invalid and nulled in the clean table.
C5_RangeMasksEveryColumn ==
    MaskCalled =>
        \A col \in (DOMAIN mask_input.cols) \cap (DOMAIN merged_ranges(mask_cfg)) :
            \A i \in 1..Len(mask_input.cols[col]) :
                OutsideRange(mask_input.cols[col][i], merged_ranges(mask_cfg)[col]) =>
                    /\ ~mask_first.masks[col][i]
                    /\ mask_first.clean.cols[col][i].nan

ZeroCount(series) == Cardinality({i \in 1..Len(series) : (~series[i].nan) /\ series[i].v = 0})

\* C6: for voc and nox, under mask_inactive a cell is valid iff it is
\* non-null, non-negative and nonzero, and every zero is counted under
\* inactive_zero; under keep_raw a zero is valid and only null or negative
\* cells are invalid.
C6_VocNoxZero ==
    MaskCalled =>
        \A col \in (DOMAIN mask_input.cols) \cap {"voc", "nox"} :
            LET series == mask_input.cols[col]
                reasons == mask_first.reasons[col]
            IN  /\ \A i \in 1..Len(series) :
                    mask_first.masks[col][i] <=>
                        /\ ~series[i].nan
                        /\ series[i].v >= 0
                        /\ (mask_cfg.voc_nox_zero_mode = "mask_inactive" => series[i].v # 0)
                /\ mask_cfg.voc_nox_zero_mode = "mask_inactive" =>
                    IF ZeroCount(series) > 0
                    THEN "inactive_zero" \in DOMAIN reasons
                         /\ reasons["inactive_zero"] = ZeroCount(series)
                    ELSE "inactive_zero" \notin DOMAIN reasons
                /\ mask_cfg.voc_nox_zero_mode = "keep_raw" =>
                    "inactive_zero" \notin DOMAIN reasons

\* the engine ran under mask_inactive on a voc or nox column holding a zero
C6_Witness ==
    /\ MaskCalled
    /\ mask_cfg.voc_nox_zero_mode = "mask_inactive"
    /\ \E col \in (DOMAIN mask_input.cols) \cap {"voc", "nox"} :
        \E i \in 1..Len(mask_input.cols[col]) :
            /\ mask_input.cols[col][i] = Num(0)
            /\ ~mask_first.masks[col][i]
            /\ mask_first.reasons[col]["inactive_zero"] >= 1

(***************************************************************************)
(* Claims about the gap detector                                           *)
(***************************************************************************)
\* the series is uniform except for exactly one delta, before sample k,
\* that is ten times the others
OneTenfoldDelta(times, k) ==
    /\ Len(times) >= 2
    /\ k \in 2..Len(times)
    /\ \E d \in 1..GapMaxDelta : times = GapSamples(d, Len(times), k, 10)

\* exactly one gap, the pair bracketing the long delta, with start < end
OneGapAt(result, times, k) ==
    /\ Len(result) = 1
    /\ result[1].start = times[k - 1]
    /\ result[1].end = times[k]
    /\ result[1].start.v < result[1].end.v

\* C7 as stated: for any number of samples, a uniform series with one delta
\* replaced by 10 d gives, with factor 2.0, exactly one gap, the pair
\* bracketing the long delta, with start < end.
C7_OneGapAnyLength ==
    (gap_pc = "done" /\ gap_factor = DefaultProcessingConfig.gap_factor) =>
        \A k \in 2..Len(gap_times) :
            OneTenfoldDelta(gap_times, k) => OneGapAt(gap_result, gap_times, k)

\* C7 amended: the same for series of at least four samples (three deltas),
\* where the median delta is the regular one.
C7_OneGapFromFourSamples ==
    (gap_pc = "done" /\ gap_factor = DefaultProcessingConfig.gap_factor /\ Len(gap_times) >= 4) =>
        \A k \in 2..Len(gap_times) :
            OneTenfoldDelta(gap_times, k) => OneGapAt(gap_result, gap_times, k)

\* detect_gaps ran with factor 2.0 on a series of at least four samples with
\* one tenfold delta, and returned a gap
C7_Witness ==
    /\ gap_pc = "done"
    /\ gap_factor = DefaultProcessingConfig.gap_factor
    /\ Len(gap_times) >= 4
    /\ \E k \in 2..Len(gap_times) : OneTenfoldDelta(gap_times, k)
    /\ Len(gap_result) = 1

(***************************************************************************)
(* Claims about the importer and the session                               *)
(***************************************************************************)
\* t[1] < t[2] < ... ; a comparison with NaT is False
StrictlyIncreasing(times) ==
    \A i \in 1..(Len(times) - 1) :
        ~times[i].nan /\ ~times[i + 1].nan /\ times[i].v < times[i + 1].v

\* the timestamps of the rows of the file, as the importer reads them
FileTimes(file) ==
    convert_timestamp([r \in 1..Len(file.rows) |-> to_numeric(file.rows[r].first)])

\* row r is, of the file rows with its timestamp, the one the policy keeps
KeptByPolicy(file, r, keep) ==
    \A q \in 1..Len(file.rows) :
        FileTimes(file)[q] = FileTimes(file)[r] =>
            IF keep = "first" THEN r <= q ELSE q <= r

\* row i of the table holds the values of a file row the policy keeps
RowFollowsPolicy(file, table, i, keep) ==
    \E r \in 1..Len(file.rows) :
        /\ KeptByPolicy(file, r, keep)
        /\ table.timestamp[i] = FileTimes(file)[r]
        /\ \A col \in DOMAIN table.cols : table.cols[col][i] = to_numeric(file.rows[r].rest)

\* C3: after load_csv the timestamps of raw and clean are strictly
\* increasing, and of the input rows sharing a timestamp the kept row is
\* the first in file order under dedup_keep "first", the last under "last".
C3_SortedDedup ==
    (imp_pc = "done" /\ imp_result.error = "") =>
        LET raw == imp_result.dataset.raw
        IN  /\ StrictlyIncreasing(raw.timestamp)
            /\ StrictlyIncreasing(imp_result.dataset.clean.timestamp)
            /\ \A i \in 1..Len(raw.timestamp) :
                    RowFollowsPolicy(imp_file, raw, i, imp_config.dedup_keep)

\* some header is, but for case, an alias of timestamp
HasTimestampHeader(file) ==
    \E j \in 1..Len(file.headers), a \in 1..Len(ALIAS_MAP["timestamp"]) :
        lower(file.headers[j]) = lower(ALIAS_MAP["timestamp"][a])

\* the column the resolver takes for the timestamp holds no number
NoNumericTimestamp(file) ==
    /\ HasTimestampHeader(file)
    /\ LET resolved == normalize_columns(file.headers)["timestamp"]
       IN  \A j \in 1..Len(file.headers) :
                file.headers[j] = resolved =>
                    \A i \in 1..Len(file.rows) : ~csv_field(file, i, j).num

\* two headers of the file get one column name
SharedColumnName(file) ==
    \E j, k \in 1..Len(file.headers) :
        j # k /\ renamed_columns(file.headers)[j] = renamed_columns(file.headers)[k]

\* the files of a session no header of which resolves to the timestamp
FilesWithoutTimestampHeader == {file \in SessionFiles : ~HasTimestampHeader(file)}

\* the files of a session with a timestamp column and no numeric cell in
\* it, the column names being distinct
FilesWithoutNumericTimestamp ==
    {file \in SessionFiles : NoNumericTimestamp(file) /\ ~SharedColumnName(file)}

\* the same where two headers share a column name
FilesWithSharedTimestamp ==
    {file \in SessionFiles : NoNumericTimestamp(file) /\ SharedColumnName(file)}

InBucket(clean, label, step) ==
    {i \in 1..Len(clean.timestamp) :
        /\ ~clean.timestamp[i].nan
        /\ clean.timestamp[i].v >= label
        /\ clean.timestamp[i].v < label + step}

\* m is the arithmetic mean of the values present at the rows pos of the
\* series, missing when there is none
IsMeanOf(m, series, pos) ==
    LET have == {i \in pos : ~series[i].nan}
    IN  IF have = {} THEN m.nan
        ELSE /\ ~m.nan
             /\ m.n * Cardinality(have) = SumOver([i \in 1..Len(series) |-> series[i].v], have) * m.d

\* C15: in the resampled table of the importer every non-missing flags
\* value is a flags value of the clean table, and every other column holds
\* the mean of the clean values of its bucket.
C15_FlagsFilledOthersAveraged ==
    (imp_pc = "done" /\ imp_result.error = "" /\ ~imp_result.dataset.resampled.none) =>
        LET clean == imp_result.dataset.clean
            resampled == imp_result.dataset.resampled
            step == interval_seconds(imp_config.resample_interval)
        IN  \A col \in DOMAIN resampled.cols, b \in 1..Len(resampled.timestamp) :
                IF col = "flags"
                THEN (~resampled.cols[col][b].nan) =>
                        \E i \in 1..Len(clean.timestamp) :
                            /\ ~clean.cols[col][i].nan
                            /\ resampled.cols[col][b] = Frac(clean.cols[col][i].v, 1)
                ELSE IsMeanOf(resampled.cols[col][b], clean.cols[col],
                              InBucket(clean, resampled.timestamp[b].v, step))

(***************************************************************************)
(* Claims about the decay fit                                              *)
(***************************************************************************)
\* the excess of sample i, defined where the sample is not missing
Excess(co2, baseline, i) == co2[i].v - baseline

Present(co2) == {i \in 1..Len(co2) : ~co2[i].nan}

\* the first sample with the largest excess
IsPeak(co2, baseline, p) ==
    /\ p \in Present(co2)
    /\ \A i \in Present(co2) :
        /\ Excess(co2, baseline, i) <= Excess(co2, baseline, p)
        /\ Excess(co2, baseline, i) = Excess(co2, baseline, p) => p <= i

\* the data are insufficient for the method, in the terms of the claim
InsufficientData(co2, baseline, method) ==
    LET above == Cardinality({i \in Present(co2) : Excess(co2, baseline, i) > 0})
    IN  IF method \in {"regression", "two_point"} THEN above < 3
        ELSE \/ above < 2
             \/ \A i \in Present(co2) : Excess(co2, baseline, i) <= 0
             \/ \A p \in Present(co2) :
                    IsPeak(co2, baseline, p) =>
                        ~\E i \in Present(co2) :
                            /\ i > p
                            /\ Excess(co2, baseline, i) * E_NUM
                                    <= Excess(co2, baseline, p) * E_DEN

\* rate 0, ACH 0, R2 0, no residuals, at least one warning
IsDegenerate(result) ==
    /\ DOMAIN result = {"k_per_hr", "ach", "baseline", "r2", "ci", "warnings", "residuals"}
    /\ result.k_per_hr = Zero
    /\ result.ach = Zero
    /\ result.r2 = Frac(0, 1)
    /\ result.residuals = <<>>
    /\ Len(result.warnings) >= 1

\* C8: fit_co2_decay on insufficient data (regression or two_point with
\* fewer than 3 samples above baseline; time_constant_63 with fewer than 2,
\* no positive excess, or no sample after the peak at or below peak/e)
\* does not raise and returns rate 0, ACH 0, R2 0, empty residuals and at
\* least one warning.
C8_DegenerateNotRaised ==
    (fit_pc = "done" /\ InsufficientData(fit_co2, fit_baseline, fit_method)) =>
        IsDegenerate(fit_result)

\* time_constant_63 ran on two samples above baseline that never fall to
\* peak/e and returned the warning of the missing threshold
C8_Witness ==
    /\ fit_pc = "done"
    /\ Cardinality(above_baseline(fit_co2, fit_baseline)) = 2
    /\ InsufficientData(fit_co2, fit_baseline, fit_method)
    /\ fit_method = "time_constant_63"
    /\ fit_result.warnings = <<"Did not reach 63% decay threshold">>

\* q is the first sample after the peak p whose excess is at or below peak/e
IsFirstCrossing(co2, baseline, p, q) ==
    LET crossed(i) == Excess(co2, baseline, i) * E_NUM <= Excess(co2, baseline, p) * E_DEN
    IN  /\ q \in Present(co2)
        /\ q > p
        /\ crossed(q)
        /\ \A i \in Present(co2) : (i > p /\ i < q) => ~crossed(i)

\* l is the last sample before q whose excess is above peak/e
IsLastAbove(co2, baseline, p, q, l) ==
    LET above(i) == Excess(co2, baseline, i) * E_NUM > Excess(co2, baseline, p) * E_DEN
    IN  /\ l \in Present(co2)
        /\ l < q
        /\ above(l)
        /\ \A i \in Present(co2) : (i > l /\ i < q) => ~above(i)

\* 1 / (hours from the peak p to the time at which the line through the
\* samples l and q crosses peak/e)
InterpolatedRate(times, co2, baseline, p, q, l) ==
    LET y0 == Excess(co2, baseline, l)
        y1 == Excess(co2, baseline, q)
    IN  PerTau(Ratio((times[l] - times[p]) * (y1 - y0) - (times[q] - times[l]) * y0, y1 - y0),
               Ratio((times[q] - times[l]) * Excess(co2, baseline, p), y1 - y0))

\* C16: fit_co2_decay with method time_constant_63 returns ACH = 1 / (hours
\* from the peak-excess sample to the time at which the excess crosses
\* peak/e), the crossing time being linearly interpolated between the last
\* sample above peak/e and the first later sample at or below it.
C16_InterpolatedTimeConstant ==
    (/\ fit_pc = "done"
     /\ fit_method = "time_constant_63"
     /\ ~InsufficientData(fit_co2, fit_baseline, fit_method)) =>
        \A p, q, l \in Present(fit_co2) :
            (/\ IsPeak(fit_co2, fit_baseline, p)
             /\ IsFirstCrossing(fit_co2, fit_baseline, p, q)
             /\ IsLastAbove(fit_co2, fit_baseline, p, q, l)) =>
                fit_result.ach = InterpolatedRate(fit_times, fit_co2, fit_baseline, p, q, l)

\* C27: on strictly increasing times, missing CO2 samples included,
\* fit_co2_decay with time_constant_63 returns either the degenerate result
\* (ACH 0) with at least one warning or a finite ACH above 0; it never
\* returns a non-finite ACH without a warning.
C27_TimeConstantAchOrWarning ==
    (/\ fit_pc = "done"
     /\ fit_method = "time_constant_63"
     /\ \A i \in 1..(Len(fit_times) - 1) : fit_times[i] < fit_times[i + 1]) =>
        /\ "raised" \notin DOMAIN fit_result
        /\ \/ fit_result.ach = Zero /\ Len(fit_result.warnings) >= 1
           \/ /\ fit_result.ach.kind = "per_tau"
              /\ fit_result.ach.a.n * fit_result.ach.b.d * E_NUM
                    + fit_result.ach.b.n * fit_result.ach.a.d * E_DEN > 0

(***************************************************************************)
(* Claims about event detection                                            *)
(***************************************************************************)
\* start times strictly increasing, labels E1, E2, ..., En
InOrderAndLabelled(events) ==
    /\ \A k \in 1..(Len(events) - 1) : events[k].start < events[k + 1].start
    /\ \A k \in 1..Len(events) : events[k].label = "E" \o ToString(k)

\* the two-decay logs, each with its shape
TwoDecayLogs ==
    {[shape |-> d, times |-> TwoDecayTimes(d), co2 |-> TwoDecayCo2(d)] : d \in TwoDecayShapes}

\* the log under detection is the two-decay log e
IsTwoDecayLog(e) == det_co2 = e.co2 /\ det_times = e.times

\* each decay of shape d meets min_drop (peak to its last sample) and
\* min_minutes (peak to its last sample), and the second peak comes at
\* least min_gap_minutes after the last sample of the first decay
DecaysQualify(d, arg) ==
    /\ d.peak1 - HalvingDecay(d.peak1, d.len1)[d.len1] >= arg.min_drop
    /\ d.peak2 - HalvingDecay(d.peak2, d.len2)[d.len2] >= arg.min_drop
    /\ d.step * (d.len1 - 1) >= arg.min_minutes
    /\ d.step * (d.len2 - 1) >= arg.min_minutes
    /\ d.step * (d.quiet + 1) >= arg.min_gap_minutes

\* exactly two events, E1 then E2, one per decay
TwoEvents(events) ==
    /\ Len(events) = 2
    /\ events[1].label = "E1"
    /\ events[2].label = "E2"
    /\ events[1].start < events[2].start

QualifiesAfterPeak(peak, len, step, arg) ==
    LET decay == HalvingDecay(peak, len)
        reach == {j \in 3..len : decay[j] * E_NUM <= decay[2] * E_DEN}
    IN  \E j \in reach :
            /\ \A k \in reach : j <= k
            /\ decay[2] - decay[j] >= arg.min_drop
            /\ step * (j - 2) >= arg.min_minutes
            /\ j - 1 >= arg.min_points

\* both decays of shape d qualify with that margin of one sample
DecaysQualifyAfterPeak(d, arg) ==
    /\ DecaysQualify(d, arg)
    /\ QualifiesAfterPeak(d.peak1, d.len1, d.step, arg)
    /\ QualifiesAfterPeak(d.peak2, d.len2, d.step, arg)

DetSamples ==
    LET kept == {i \in 1..Len(det_times) : ~det_times[i].nan /\ ~det_co2[i].nan}
        row(k) == CHOOSE i \in kept :
                    Cardinality({j \in kept : det_times[j].v < det_times[i].v}) = k - 1
    IN  [t |-> [k \in 1..Cardinality(kept) |-> det_times[row(k)].v],
         excess |-> [k \in 1..Cardinality(kept) |-> det_co2[row(k)].v - det_arg.baseline]]

\* twice the smoothed excess
Smoothed(excess) == [k \in 1..Len(excess) |-> rolling_median_twice(excess, k)]

\* sample i is a peak of the smoothed excess that meets min_drop
IsSmoothPeak(smooth, i, min_drop) ==
    /\ i \in 1..(Len(smooth) - 1)
    /\ i > 1 => smooth[i] >= smooth[i - 1]
    /\ IF i = 1 THEN smooth[i] >= smooth[i + 1] ELSE smooth[i] > smooth[i + 1]
    /\ smooth[i] >= 2 * min_drop

IsSmoothTrough(smooth, i) ==
    /\ i \in 2..(Len(smooth) - 1)
    /\ smooth[i] <= smooth[i - 1]
    /\ smooth[i] < smooth[i + 1]

\* q is the trough of the peak p: the next trough of the smoothed excess
\* after p, or without one the first lowest sample after p
IsTroughOf(excess, smooth, p, q) ==
    /\ q \in (p + 1)..Len(excess)
    /\ IF \E i \in (p + 1)..Len(excess) : IsSmoothTrough(smooth, i)
       THEN /\ IsSmoothTrough(smooth, q)
            /\ \A i \in (p + 1)..(q - 1) : ~IsSmoothTrough(smooth, i)
       ELSE /\ \A i \in (p + 1)..Len(excess) : excess[q] <= excess[i]
            /\ \A i \in (p + 1)..(q - 1) : excess[q] < excess[i]

\* e is the end of the peak p with trough q: the first sample after p, up to
\* q, at or below 1/e of the peak excess, or q without one
IsEndOf(excess, p, q, e) ==
    LET below(j) == excess[j] * E_NUM <= excess[p] * E_DEN
    IN  IF \E j \in (p + 1)..q : below(j)
        THEN e \in (p + 1)..q /\ below(e) /\ \A j \in (p + 1)..(e - 1) : ~below(j)
        ELSE e = q

\* the peak p with trough q and end e meets min_drop, min_minutes and
\* min_points
MeetsThresholds(s, p, q, e, arg) ==
    /\ s.excess[p] - s.excess[q] >= arg.min_drop
    /\ s.t[e] - s.t[p] >= arg.min_minutes
    /\ e - p + 1 >= arg.min_points

\* the end of the last event that starts before time, missing without one
LastEndBefore(events, time) ==
    LET earlier == {k \in 1..Len(events) : events[k].start < time}
    IN  IF earlier = {} THEN NaT
        ELSE Num(events[CHOOSE k \in earlier : \A j \in earlier : j <= k].end)

\* C21: every event returned by detect_co2_decay_events lasts at least
\* min_minutes, has at least min_points samples from its peak to its end,
\* drops at least min_drop from its peak to its trough, and starts no earlier
\* than the end of the event returned before it plus min_gap_minutes, so
\* events do not overlap; and a rejected candidate does not move the end
\* the spacing is measured from: a peak that meets the thresholds and is
\* spaced from the last event returned before it is itself returned.
C21_ThresholdsAndSpacing ==
    (det_pc = "done") =>
        LET s == DetSamples
            smooth == Smoothed(s.excess)
            n == Len(s.t)
        IN  /\ \A k \in 1..Len(det_events) :
                \E p, q, e \in 1..n :
                    /\ s.t[p] = det_events[k].start
                    /\ s.t[e] = det_events[k].end
                    /\ IsSmoothPeak(smooth, p, det_arg.min_drop)
                    /\ IsTroughOf(s.excess, smooth, p, q)
                    /\ IsEndOf(s.excess, p, q, e)
                    /\ MeetsThresholds(s, p, q, e, det_arg)
                    /\ Cardinality({i \in 1..n : s.t[i] >= s.t[p] /\ s.t[i] <= s.t[e]})
                            >= det_arg.min_points
                    /\ k > 1 => /\ s.t[p] >= det_events[k - 1].end + det_arg.min_gap_minutes
                                /\ s.t[p] >= det_events[k - 1].end
            /\ \A p, q, e \in 1..n :
                (/\ n >= 3
                 /\ IsSmoothPeak(smooth, p, det_arg.min_drop)
                 /\ IsTroughOf(s.excess, smooth, p, q)
                 /\ IsEndOf(s.excess, p, q, e)
                 /\ MeetsThresholds(s, p, q, e, det_arg)
                 /\ LET last == LastEndBefore(det_events, s.t[p])
                    IN  last.nan \/ s.t[p] >= last.v + det_arg.min_gap_minutes) =>
                    \E k \in 1..Len(det_events) : det_events[k].start = s.t[p]

\* detection returned two events after passing over a peak of the smoothed
\* excess that lies between them and was rejected
C21_Witness ==
    /\ det_pc = "done"
    /\ Len(det_events) = 2
    /\ LET s == DetSamples
       IN  \E p \in 1..Len(s.t) :
            /\ IsSmoothPeak(Smoothed(s.excess), p, det_arg.min_drop)
            /\ s.t[p] > det_events[1].start
            /\ s.t[p] < det_events[2].start

FallbackWarning == "Did not reach 1/e before next rise; used regression"

\* a sample after the peak p, up to the trough q, is at or below 1/e of the
\* peak excess
ReachesThreshold(excess, p, q) ==
    \E j \in (p + 1)..q : excess[j] * E_NUM <= excess[p] * E_DEN

\* C22: the end of each event of detect_co2_decay_events is the first sample
\* after the peak, up to and including the trough, whose excess is at or
\* below peak excess / e, and then the method recorded is the one requested;
\* without such a sample the end is the trough, and if time_constant_63 was
\* requested the method recorded is "regression" and the warnings record the
\* fallback.  The method differs from the requested one in no other case.
C22_EndAndFallback ==
    (det_pc = "done") =>
        LET s == DetSamples
            smooth == Smoothed(s.excess)
            n == Len(s.t)
        IN  \A k \in 1..Len(det_events) :
                \E p, q, e \in 1..n :
                    /\ s.t[p] = det_events[k].start
                    /\ IsTroughOf(s.excess, smooth, p, q)
                    /\ IsEndOf(s.excess, p, q, e)
                    /\ s.t[e] = det_events[k].end
                    /\ IF ~ReachesThreshold(s.excess, p, q) /\ det_arg.method = "time_constant_63"
                       THEN /\ e = q
                            /\ det_events[k].method = "regression"
                            /\ \E w \in 1..Len(det_events[k].warnings) :
                                    det_events[k].warnings[w] = FallbackWarning
                       ELSE /\ det_events[k].method = det_arg.method
                            /\ \A w \in 1..Len(det_events[k].warnings) :
                                    det_events[k].warnings[w] # FallbackWarning

\* time_constant_63 was requested and detection returned an event that ends
\* at its trough above 1/e of its peak, fitted by regression
C22_Witness ==
    /\ det_pc = "done"
    /\ det_arg.method = "time_constant_63"
    /\ \E k \in 1..Len(det_events) :
        /\ det_events[k].method = "regression"
        /\ det_events[k].warnings[1] = FallbackWarning
        /\ \E i \in 1..Len(det_times) :
            /\ det_times[i].v = det_events[k].end
            /\ (det_co2[i].v - det_arg.baseline) * E_NUM
                    > (det_events[k].peak_value - det_arg.baseline) * E_DEN

(***************************************************************************)
(* Claims about the ACH summary                                            *)
(***************************************************************************)
\* the positions of the events with r2 >= min_r2 and a finite ACH
Included(events, min_r2) ==
    {i \in 1..Len(events) :
        ~events[i].r2.nan /\ events[i].r2.v >= min_r2 /\ events[i].ach.kind = "finite"}

\* the events at the positions of a set, in their order
EventsAt(events, pos) == [k \in 1..Cardinality(pos) |-> events[ascending(pos)[k]]]

\* m is the median of the values x at the positions pos: the middle value
\* of an odd number, the mean of the two middle values of an even number
IsMedian(m, x, pos) ==
    LET n == Cardinality(pos)
        rank(i) == Cardinality({j \in pos : x[j] < x[i] \/ (x[j] = x[i] /\ j <= i)})
    IN  IF n % 2 = 1
        THEN \E i \in pos : rank(i) = (n + 1) \div 2 /\ m = Ratio(x[i], 1)
        ELSE \E i, j \in pos :
                /\ rank(i) = n \div 2
                /\ rank(j) = n \div 2 + 1
                /\ m = Ratio(x[i] + x[j], 2)

\* stats are the statistics of the ACH of the events at pos
IsSummaryOf(stats, events, pos) ==
    LET n == Cardinality(pos)
        x == [i \in 1..Len(events) |-> events[i].ach.v]
        total == SumOver(x, pos)
        \* (n - 1) * n^2 * variance = sum((n * x - total)^2)
        spread == SumOver([i \in 1..Len(events) |-> (n * x[i] - total) * (n * x[i] - total)], pos)
    IN  /\ DOMAIN stats = {"n", "mean", "median", "min", "max", "std"}
        /\ stats.n = n
        /\ stats.mean.n * n = total * stats.mean.d
        /\ IsMedian(stats.median, x, pos)
        /\ \E i \in pos : stats.min = x[i] /\ \A j \in pos : x[i] <= x[j]
        /\ \E i \in pos : stats.max = x[i] /\ \A j \in pos : x[i] >= x[j]
        /\ IF n < 2 THEN stats.std.sqrt.n = 0
           ELSE stats.std.sqrt.n * (n - 1) * n * n = spread * stats.std.sqrt.d

\* C11: summarize_ach returns n, mean, median, min, max and the sample
\* standard deviation (N-1 denominator, 0 when n < 2) of exactly the events
\* with r2 >= min_r2 and finite ACH, the other events changing nothing, and
\* the empty result when no event qualifies.
C11_SummaryOfIncluded ==
    (ach_pc = "done") =>
        LET pos == Included(ach_events, ach_min_r2)
        IN  /\ IF pos = {} THEN DOMAIN ach_stats = {}
               ELSE IsSummaryOf(ach_stats, ach_events, pos)
            /\ ach_stats = summarize_ach(EventsAt(ach_events, pos), ach_min_r2)

\* a summary of two events was made from three, the third being below the
\* threshold
C11_Witness ==
    /\ ach_pc = "done"
    /\ Len(ach_events) = 3
    /\ Cardinality(Included(ach_events, ach_min_r2)) = 2
    /\ \E i \in 1..3 : ~ach_events[i].r2.nan /\ ach_events[i].r2.v < ach_min_r2
                        /\ ach_events[i].ach.kind = "finite"
    /\ ach_stats.n = 2
    /\ ach_stats.std.sqrt.n > 0

(***************************************************************************)
(* Claims about the exposure engine                                        *)
(***************************************************************************)
\* every sample of the series holds the value V, none is missing
ConstantSeries(values, V) ==
    /\ Len(values) >= 1
    /\ \A i \in 1..Len(values) : values[i] = Num(V)

\* the seconds from the first to the last sample
Span(times) == times[Len(times)] - times[1]

\* auc = V * T, mean = V, and relative_to_threshold = V / threshold for a
\* threshold above 0
ConstantExposure(stats, V, T, threshold) ==
    /\ stats.auc = V * T
    /\ stats.mean = Frac(V, 1)
    /\ threshold > 0 =>
        /\ ~stats.relative_to_threshold.nan
        /\ stats.relative_to_threshold.n * threshold = V * stats.relative_to_threshold.d

\* C12 as stated: a series constant at V spanning T seconds, with any
\* spacing, has auc = V * T, mean = V and, for threshold > 0,
\* relative_to_threshold = V / threshold.
C12_ConstantAnySpan ==
    (exp_pc = "done") =>
        \A V \in {0, 2, 6} :
            ConstantSeries(exp_values, V) =>
                ConstantExposure(exp_stats, V, Span(exp_times), exp_threshold)

\* C12 amended: the same for a span T > 0; with T = 0 (one sample) or
\* T < 0 the mean and relative_to_threshold are NaN.
C12_ConstantPositiveSpan ==
    (exp_pc = "done") =>
        \A V \in {0, 2, 6} :
            (ConstantSeries(exp_values, V) /\ Span(exp_times) > 0) =>
                ConstantExposure(exp_stats, V, Span(exp_times), exp_threshold)

\* exposure_stats ran on three samples of 6 with irregular spacing and a
\* threshold of 3
C12_Witness ==
    /\ exp_pc = "done"
    /\ ConstantSeries(exp_values, 6)
    /\ exp_times = <<0, 1, 3>>
    /\ exp_threshold = 3
    /\ exp_stats.auc = 18
    /\ exp_stats.relative_to_threshold = Frac(2, 1)

(***************************************************************************)
(* Claims about the smoothing filters                                      *)
(***************************************************************************)
\* the series made of the samples of series at the positions keep, in order
SamplesAt(series, keep) ==
    [index |-> [k \in 1..Len(keep) |-> series.index[keep[k]]],
     values |-> [k \in 1..Len(keep) |-> series.values[keep[k]]]]

EmaInput == [index |-> ema_times, values |-> ema_values]

\* the positions from..to, in order
Positions(from, to) == [k \in 1..(to - from + 1) |-> from + k - 1]

IsRestart(values, r) ==
    /\ r \in 2..Len(values)
    /\ values[r - 1].nan
    /\ ~values[r].nan

\* C18: in "reset" mode ema_time_aware outputs the first valid sample after
\* any missing sample unchanged, and every later output up to the next
\* missing sample is the one the filter gives on the samples from that
\* restart onward alone.
C18_ResetRestarts ==
    (ema_pc = "done" /\ ema_nan_mode = "reset") =>
        \A r \in 1..Len(ema_values) :
            IsRestart(ema_values, r) =>
                /\ ema_out.values[r] = ema_values[r]
                /\ \A s \in r..Len(ema_values) :
                    (\A i \in r..s : ~ema_values[i].nan) =>
                        ema_out.values[s] =
                            ema_time_aware(SamplesAt(EmaInput, Positions(r, s)),
                                           ema_tau, "reset").values[s - r + 1]

\* a reset-mode run with an active time constant over a series with a valid
\* sample, a missing one, a restart differing from the history and a later
\* sample that was smoothed
C18_Witness ==
    /\ ema_pc = "done"
    /\ ema_nan_mode = "reset"
    /\ ema_tau = Tau(1)
    /\ \E r \in 3..(Len(ema_values) - 1) :
        /\ IsRestart(ema_values, r)
        /\ ~ema_values[r - 2].nan
        /\ ema_values[r - 2] # ema_values[r]
        /\ ~ema_values[r + 1].nan
        /\ ema_times[r] < ema_times[r + 1]
        /\ ema_out.values[r + 1] # ema_values[r + 1]

(***************************************************************************)
(* Claims about the re-application of a processing config                  *)
(***************************************************************************)
\* a dataset is current
HasCurrent == sess_current \in 1..Len(sess_datasets)

\* the clean table, masks, mask reasons, gaps, flat-line flags and resampled
\* table of two datasets are equal
SameProducts(a, b) ==
    /\ a.clean = b.clean
    /\ a.masks = b.masks
    /\ a.metadata.mask_reasons = b.metadata.mask_reasons
    /\ a.metadata.gaps = b.metadata.gaps
    /\ a.flags = b.flags
    /\ a.resampled = b.resampled

\* C19: once a config change has been applied to the current dataset
\* (MainWindow._on_processing_config_changed), its clean table, masks, mask
\* reasons, gaps, flat-line flags and resampled table equal those a fresh
\* load_csv of the same file under the new config produces, and its raw
\* table is the one it had.
C19_ReapplyEqualsFreshLoad ==
    [][(ApplyConfig /\ HasCurrent) =>
        LET before == sess_datasets[sess_current]
            after == sess_datasets'[sess_current]
        IN  /\ after.raw = before.raw
            /\ \E outcome \in session_load_csv[before.metadata.path, sess_config'] :
                /\ outcome.error = ""
                /\ outcome.dataset.raw = after.raw
                /\ SameProducts(after, outcome.dataset)]_vars

\* the second of two datasets is current and resampled under the config of
\* the session while the first, imported before it, is not resampled: the
\* config changed while the second was current
ReappliedToSecond ==
    /\ Len(sess_datasets) = 2
    /\ sess_current = 2
    /\ sess_datasets[1].metadata.resample_interval = "None"
    /\ sess_config.resample_interval = "10min"
    /\ sess_datasets[2].metadata.resample_interval = "10min"

\* a config change that turned resampling and the automask on was applied
\* to the current dataset, whose resampled table has a bucket and whose
\* flat-line flags are set somewhere
C19_Witness ==
    /\ ReappliedToSecond
    /\ sess_config.flatline_automask
    /\ ~sess_datasets[2].resampled.none
    /\ Len(sess_datasets[2].resampled.timestamp) >= 1
    /\ \E col \in DOMAIN sess_datasets[2].flags :
        \E i \in 1..Len(sess_datasets[2].flags[col]) : sess_datasets[2].flags[col][i]

\* raw and clean have the same rows, columns and timestamps, and in every
\* column with a mask a cell whose mask is false is missing in clean and a
\* cell whose mask is true holds the raw value
CleanFollowsMasks(dataset) ==
    /\ dataset.clean.timestamp = dataset.raw.timestamp
    /\ DOMAIN dataset.clean.cols = DOMAIN dataset.raw.cols
    /\ \A col \in DOMAIN dataset.raw.cols :
        Len(dataset.clean.cols[col]) = Len(dataset.raw.cols[col])
    /\ \A col \in DOMAIN dataset.masks :
        /\ col \in DOMAIN dataset.clean.cols
        /\ \A i \in 1..Len(dataset.masks[col]) :
            IF dataset.masks[col][i]
            THEN dataset.clean.cols[col][i] = dataset.raw.cols[col][i]
            ELSE dataset.clean.cols[col][i].nan

\* C20: in every Dataset state reachable by load_csv followed by any number
\* of processing-config re-applications, raw and clean have the same rows,
\* columns and timestamps, and for every column with a mask each cell whose
\* mask is false is missing in clean while each cell whose mask is true
\* holds the raw value.
C20_CleanFollowsMasks ==
    \A k \in 1..Len(sess_datasets) : CleanFollowsMasks(sess_datasets[k])

\* a config change with the automask was applied to the current dataset,
\* which has a cell present in raw that the automask removed from clean and
\* from the mask
C20_Witness ==
    /\ ReappliedToSecond
    /\ \E col \in DOMAIN sess_datasets[2].masks :
        \E i \in 1..Len(sess_datasets[2].masks[col]) :
            /\ ~sess_datasets[2].masks[col][i]
            /\ ~sess_datasets[2].raw.cols[col][i].nan
            /\ col \in DOMAIN sess_datasets[2].flags
            /\ sess_datasets[2].flags[col][i]

(***************************************************************************)
(* Claims about the flat-line diagnostics                                  *)
(***************************************************************************)
\* the cells a..b of values are a maximal run of consecutive identical
\* values, none of them missing
IsMaximalRun(values, a, b) ==
    /\ a <= b
    /\ \A i \in a..b : ~values[i].nan /\ values[i] = values[a]
    /\ a = 1 \/ values[a - 1] # values[a]
    /\ b = Len(values) \/ values[b + 1] # values[b]

\* the run a..b has min_samples samples or spans min_minutes
IsFlatRun(times, a, b, cfg) ==
    \/ b - a + 1 >= cfg.min_samples
    \/ /\ ~times[a].nan
       /\ ~times[b].nan
       /\ times[b].v - times[a].v >= cfg.min_minutes * 60

\* C23: for each column, flag_flatlines flags exactly the cells of the
\* maximal runs of consecutive identical values whose sample count is
\* >= min_samples or whose time span is >= min_minutes; a missing value is a
\* run boundary and belongs to no run.
C23_FlatRunsFlagged ==
    (flat_pc = "done") =>
        \A col \in DOMAIN flat_df.cols :
            LET values == flat_df.cols[col]
            IN  Len(values) > 0 =>
                    /\ col \in DOMAIN flat_flags
                    /\ \A i \in 1..Len(values) :
                        flat_flags[col][i] <=>
                            \E a \in 1..i, b \in i..Len(values) :
                                /\ IsMaximalRun(values, a, b)
                                /\ IsFlatRun(flat_df.timestamp, a, b, flat_cfg)

\* a column with two equal values around a missing one, further apart than
\* min_minutes, the first of them not flagged, and a flagged cell elsewhere
C23_Witness ==
    /\ flat_pc = "done"
    /\ \E i, j, k \in 1..Len(flat_df.timestamp) :
        /\ i < j /\ j < k
        /\ ~flat_df.cols["pm2_5"][i].nan
        /\ flat_df.cols["pm2_5"][j].nan
        /\ flat_df.cols["pm2_5"][k] = flat_df.cols["pm2_5"][i]
        /\ ~flat_df.timestamp[k].nan
        /\ flat_df.timestamp[k].v - flat_df.timestamp[i].v >= flat_cfg.min_minutes * 60
        /\ ~flat_flags["pm2_5"][i]
        /\ flat_flags["pm2_5"][k]

\* a particulate column
IsParticulate(col) == col \in PM_COLUMNS \cup PN_COLUMNS

\* the dataset is what the validity masks alone give for its raw table
\* under config, but for the flagged cells of its particulate columns when
\* the diagnostics and the automask are both set: those are missing in
\* clean and false in the mask
DiagnosticsFrame(dataset, config) ==
    LET base == apply_validity_masks(dataset.raw, config)
        on == config.flatline_diag_enabled /\ config.flatline_automask
    IN  /\ dataset.clean.timestamp = dataset.raw.timestamp
        /\ DOMAIN dataset.clean.cols = DOMAIN base.clean.cols
        /\ DOMAIN dataset.masks = DOMAIN base.masks
        /\ \A col \in DOMAIN dataset.clean.cols :
            IF on /\ IsParticulate(col)
            THEN \A i \in 1..Len(dataset.clean.cols[col]) :
                    IF dataset.flags[col][i]
                    THEN dataset.clean.cols[col][i].nan /\ ~dataset.masks[col][i]
                    ELSE /\ dataset.clean.cols[col][i] = base.clean.cols[col][i]
                         /\ dataset.masks[col][i] = base.masks[col][i]
            ELSE /\ dataset.clean.cols[col] = base.clean.cols[col]
                 /\ dataset.masks[col] = base.masks[col]

\* C24: flat-line diagnostics change the clean table and the validity masks
\* only when flatline_diag_enabled and flatline_automask are both set, and
\* then only in particulate columns, where each flagged cell becomes missing
\* and its mask false; every other column, the timestamps and the raw table
\* are left as they were, in load_csv and in the re-application of a config.
C24_AutomaskFrame ==
    [][/\ (ApplyConfig /\ HasCurrent) =>
            /\ sess_datasets'[sess_current].raw = sess_datasets[sess_current].raw
            /\ DiagnosticsFrame(sess_datasets'[sess_current], sess_config')
       /\ (ImportCsv /\ Len(sess_datasets') > Len(sess_datasets)) =>
            DiagnosticsFrame(sess_datasets'[Len(sess_datasets')], sess_config)]_vars

\* a config with the automask was re-applied to the current dataset, whose
\* flags column and pm2_5 column are both flagged in a row: the pm2_5 cell
\* is gone from clean, the flags cell is not
C24_Witness ==
    /\ ReappliedToSecond
    /\ sess_config.flatline_automask
    /\ {"flags", "pm2_5"} \subseteq DOMAIN sess_datasets[2].flags
    /\ \E i \in 1..Len(sess_datasets[2].clean.timestamp) :
        /\ sess_datasets[2].flags["flags"][i]
        /\ sess_datasets[2].flags["pm2_5"][i]
        /\ ~sess_datasets[2].clean.cols["flags"][i].nan
        /\ sess_datasets[2].masks["flags"][i]
        /\ sess_datasets[2].clean.cols["pm2_5"][i].nan
        /\ ~sess_datasets[2].raw.cols["pm2_5"][i].nan

\* C25: every event that detect_co2_decay_events fits with time_constant_63
\* carries r2 = 0.0, so summarize_ach with a min_r2 above 0 (0.9 in the
\* session) keeps none of them: a detection whose events all used
\* time_constant_63 has the empty summary.
C25_TimeConstantEventsExcluded ==
    det_pc = "done" =>
        /\ \A k \in 1..Len(det_events) :
            det_events[k].method = "time_constant_63" => det_events[k].r2 = Frac(0, 1)
        /\ (\A k \in 1..Len(det_events) : det_events[k].method = "time_constant_63") =>
            \A min_r2 \in 1..100 : ach_selected(det_events, min_r2) = <<>>

\* a detection with two events, both fitted by time_constant_63 with an ACH
\* above 0
C25_Witness ==
    /\ det_pc = "done"
    /\ Len(det_events) = 2
    /\ \A k \in 1..2 : /\ det_events[k].method = "time_constant_63"
                       /\ det_events[k].ach.kind = "per_tau"
    /\ ach_selected(det_events, 90) = <<>>
    /\ ach_selected(det_events, 0) = det_events

\* C26: for every event returned by detect_co2_decay_events, peak_value is
\* the largest CO2 value among the samples from the event's start to its
\* end, the segment handed to the fit.
C26_PeakIsSegmentMaximum ==
    (det_pc = "done") =>
        LET s == DetSamples
        IN  \A k \in 1..Len(det_events) :
                \A i \in 1..Len(s.t) :
                    (s.t[i] >= det_events[k].start /\ s.t[i] <= det_events[k].end) =>
                        s.excess[i] + det_arg.baseline <= det_events[k].peak_value

\* the sum of the counts recorded for one column
RECURSIVE CountsOver(_, _)
CountsOver(reasons, names) ==
    IF names = {} THEN 0
    ELSE LET r == CHOOSE x \in names : TRUE
         IN  reasons[r] + CountsOver(reasons, names \ {r})

ReasonTotal(reasons) == CountsOver(reasons, DOMAIN reasons)

\* the cells of a mask that are false
FalseCells(mask) == Cardinality({i \in 1..Len(mask) : ~mask[i]})

\* C28: in every dataset load_csv produces, for every masked column, the
\* counts recorded for the column in metadata["mask_reasons"] add up to the
\* number of cells whose validity mask is false.
C28_ReasonsCountMaskedCells ==
    (imp_pc = "done" /\ imp_result.error = "") =>
        \A col \in DOMAIN imp_result.dataset.masks :
            ReasonTotal(imp_result.dataset.metadata.mask_reasons[col])
                = FalseCells(imp_result.dataset.masks[col])

(***************************************************************************)
(* Claims about the AQI summary                                            *)
(***************************************************************************)
\* the seconds elapsed before the samples that classify_aqi labels name,
\* the first sample counting 0
SecondsLabelled(times, values, categories, name) ==
    LET labels == classify_aqi(values, categories)
    IN  SumSeq([i \in 1..Len(values) |->
                    IF i > 1 /\ labels[i] = name THEN times[i] - times[i - 1] ELSE 0])

\* C29: for a time-indexed AQI series and any list of category bands, the
\* seconds aqi_summary reports for a category are the sum of the elapsed
\* times of exactly the samples classify_aqi labels with that category (the
\* first sample contributing 0), so the times of the categories never add
\* up to more than the elapsed seconds of the series.
C29_TimeOfClassifiedSamples ==
    (sum_pc = "done") =>
        /\ \A name \in DOMAIN sum_result.time :
            sum_result.time[name]
                = SecondsLabelled(sum_times, sum_values, sum_categories, name)
        /\ sum_times # <<>> =>
            CountsOver(sum_result.time, DOMAIN sum_result.time)
                <= sum_times[Len(sum_times)] - sum_times[1]

(***************************************************************************)
(* Claims about the column aliases                                         *)
(***************************************************************************)
\* C30: for pairwise distinct CSV headers, normalize_columns maps distinct
\* canonical keys to distinct original headers, and after the renaming of
\* the importer every column name of the table is unique, also when several
\* headers are aliases of one canonical key or differ from it by case only.
C30_DistinctColumnNames ==
    (imp_pc = "done") =>
        LET normalized == normalize_columns(imp_file.headers)
            names == renamed_columns(imp_file.headers)
        IN  /\ \A a, b \in DOMAIN normalized : a # b => normalized[a] # normalized[b]
            /\ \A j, k \in 1..Len(names) : j # k => names[j] # names[k]

====
